---- MODULE Spec2Model ----
(***************************************************************************)
(* Model of the VoxAI realtime relay server (server.js, the later of the   *)
(* two versions kept in src/unnamed/part_000, lines 357-925).              *)
(*                                                                         *)
(* The relay runs on one event loop: every handler below is one action,    *)
(* and a handler that awaits (startGeminiSession) is split at its await.   *)
(* The `ws` WebSocket objects and the upstream provider session are the    *)
(* handlers' environment; what the handlers observe of them (readyState,   *)
(* events, callbacks) is modelled next to the call sites.                  *)
(***************************************************************************)
EXTENDS Integers, Sequences, FiniteSets, TLC

\* ---------------------------------------------------------------- bounds
NumConns    == 2      \* WebSocket objects ever created in one run
MaxAttempts == 2      \* upstream connects ever requested by one Connection
MaxTicks    == 3      \* clock advances in one run
MaxRequests == 2      \* POST requests to the token endpoint alive at once
MaxFrames   == 4      \* frames one browser sends on a Connection
MaxWire     == 2      \* frames of a Connection in transit at once
MaxForwardParts == 2  \* parts of the message given to forwardGeminiMessage alone
MaxSockets  == 2      \* connect() calls of one browser client that reach new WebSocket
MaxOver     == 1      \* messages delivered beyond the ceiling in one window
MaxParts    == 1      \* parts in the model turn of one upstream message

\* ------------------------------------------------- configuration (CONFIG)
maxConnections       == 2
maxConnectionsPerIp  == 1
maxMessagesPerMinute == 2
messageWindowMs      == 60000
TickMs               == 20000
closeTimeout         == 30000

defaultVoice    == "Aoede"
VOICE_ALLOWLIST == {"Aoede", "Kore", "Leda", "Puck", "Zephyr"}
allowedOrigins  == {"https://app.example"}

\* ------------------------------------------------------- request inputs
ConnIds   == 1..NumConns
IPs       == {"10.0.0.1", "10.0.0.2", "10.0.0.3"}
NoOrigin  == "<absent>"
\* the origin built from the request's own Host and X-Forwarded-Proto headers
ExpectedOrigin == "https://self.example"
Origins   == {NoOrigin, "https://app.example", "https://evil.example", ExpectedOrigin}
RelayPath == "/api/live"
Paths     == {RelayPath, "/_next/hmr"}
\* payload.voiceName: a listed name, an unlisted name, a non-string value that
\* prints as a listed name, and no value at all
NoVoice   == [isString |-> FALSE, value |-> ""]
Voices    ==
    { [isString |-> TRUE,  value |-> "Kore"],
      [isString |-> TRUE,  value |-> "NotAVoice"],
      [isString |-> FALSE, value |-> "Kore"],
      NoVoice }

\* values a rejected connect or a failing upstream send can throw: an Error,
\* a string, anything else
Errors ==
    { [kind |-> "Error",  message |-> "connect failed"],
      [kind |-> "string", message |-> "quota exceeded"],
      [kind |-> "other",  message |-> ""] }

\* the upstream send of a message returns normally
NoError == [kind |-> "none", message |-> ""]

\* what sendRealtimeInput / sendClientContent can throw
SendErrors == {error \in Errors : error.kind \in {"Error", "other"}}

\* inbound messages; `error` is what the upstream send of the message throws
Messages ==
    {[type |-> "badjson", voiceName |-> NoVoice, hasData |-> FALSE, error |-> NoError]}
    \cup {[type |-> "start", voiceName |-> v, hasData |-> FALSE, error |-> NoError] :
              v \in Voices}
    \cup {[type |-> t, voiceName |-> NoVoice, hasData |-> d, error |-> NoError] :
              t \in {"audio", "text"}, d \in BOOLEAN}
    \cup {[type |-> t, voiceName |-> NoVoice, hasData |-> TRUE, error |-> x] :
              t \in {"audio", "text"}, x \in SendErrors}
    \cup {[type |-> "stop", voiceName |-> NoVoice, hasData |-> FALSE, error |-> NoError]}

\* text fields of an upstream message: absent or not a string, blank, and
\* a text with leading whitespace
Texts ==
    { [isString |-> FALSE, chars |-> <<>>],
      [isString |-> TRUE,  chars |-> <<" ">>],
      [isString |-> TRUE,  chars |-> <<" ", "h">>] }

\* one part of serverContent.modelTurn.parts
PartData == {"", "AAAA"}
Parts == [data : PartData, text : Texts]

PartSeqs == UNION {[1..n -> Parts] : n \in 0..MaxParts}

\* messages delivered to callbacks.onmessage
GeminiMessages ==
    {[hasServerContent |-> FALSE, interrupted |-> FALSE, parts |-> <<>>,
      inputTranscription |-> [isString |-> FALSE, chars |-> <<>>],
      outputTranscription |-> [isString |-> FALSE, chars |-> <<>>]]}
    \cup [hasServerContent : {TRUE}, interrupted : BOOLEAN, parts : PartSeqs,
          inputTranscription : Texts, outputTranscription : Texts]

VARIABLES
    proc,               \* "boot" | "running" | "exited"
    exitCode,           \* process exit code, -1 while the process lives
    hasKey,             \* process.env.GEMINI_API_KEY is set
    isProduction,       \* NODE_ENV === 'production'
    isShuttingDown,
    listenerClosing,    \* server.close(cb) has been called, cb still pending
    failsafeArmed,      \* the 10 s forced-exit timer is pending
    activeConnections,  \* Set of ws
    connectionsByIp,    \* Map ip -> count, a function on the keys present
    now,                \* Date.now()
    readyState,         \* ws.readyState, "NONE" before the object exists
    socketDead,         \* the raw socket is destroyed: no more inbound frames
    wsErrored,          \* the ws 'error' event has been emitted
    closeFrame,         \* [code, reason] of the first ws.close() call
    closingSince,       \* Date.now() of that call
    state,              \* the per-connection `state` object
    heartbeatTimer,     \* setInterval handle is live
    startTimer,         \* setTimeout handle is pending
    up,                 \* per Connection, the status of each upstream attempt
    upVoice,            \* per Connection, the voice its latest connect asked for
    last,               \* what the latest handler did (observable outputs)
    REQUEST_COUNTS_BY_IP,   \* token endpoint: Map ip -> count in this window
    globalWindowStartedAt,  \* token endpoint: start of the rate window
    globalWindowCount,      \* token endpoint: requests admitted in this window
    inFlightTokenRequests,  \* token endpoint: the in-flight counter
    tokenPc,                \* per POST request, the await it is suspended at
    tokenAdmitted,          \* history: <<ip, time>> of each request the limiter let pass
    tokenLast,              \* what the latest step of the token endpoint did
    wire,                   \* per Connection, the frames sent and not yet delivered
    sentCount,              \* per Connection, how many frames the browser has sent
    forwarded,              \* per Connection, the frames the upstream session got
    fwdMessage,             \* forwardGeminiMessage alone: its message argument
    fwdReadyState,          \* ... the readyState of its ws argument
    fwdFrames,              \* ... the frames it sent
    fwdDone,                \* ... it has returned
    client,                 \* browser: the fields of one GeminiLive object
    sock,                   \* browser: per connect() call, its socket and promise
    clientLast              \* browser: what the latest step of the client was

tokVars == <<REQUEST_COUNTS_BY_IP, globalWindowStartedAt, globalWindowCount,
             inFlightTokenRequests, tokenPc, tokenAdmitted, tokenLast>>

ordVars == <<wire, sentCount, forwarded>>

fwdVars == <<fwdMessage, fwdReadyState, fwdFrames, fwdDone>>

cliVars == <<client, sock, clientLast>>

vars == <<proc, exitCode, hasKey, isProduction, isShuttingDown, listenerClosing,
          failsafeArmed, activeConnections, connectionsByIp, now, readyState,
          socketDead, wsErrored, closeFrame, closingSince, state,
          heartbeatTimer, startTimer, up, upVoice, last, tokVars, ordVars, fwdVars, cliVars>>

procVars == <<proc, exitCode, hasKey, isProduction, isShuttingDown,
              listenerClosing, failsafeArmed>>
admVars  == <<activeConnections, connectionsByIp>>
wsVars   == <<readyState, socketDead, wsErrored, closeFrame, closingSince>>
tmrVars  == <<heartbeatTimer, startTimer>>

\* ---------------------------------------------------------------- helpers
NoFrame == [code |-> 0, reason |-> ""]

Out(op, c, http, frames, parsed, fwd) ==
    [op |-> op, conn |-> c, http |-> http, frames |-> frames,
     parsed |-> parsed, fwd |-> fwd, req |-> <<>>]

\* the request an upgrade step answered
OutUpgrade(c, http, ip, origin, path) ==
    [Out("upgrade", c, http, <<>>, FALSE, "") EXCEPT !.req = <<ip, origin, path>>]

\* Map.get(k) || d
MapGet(m, k, d) == IF k \in DOMAIN m /\ m[k] # 0 THEN m[k] ELSE d
MapSet(m, k, v) == [x \in (DOMAIN m) \cup {k} |-> IF x = k THEN v ELSE m[x]]
MapDelete(m, k) == [x \in (DOMAIN m) \ {k} |-> m[x]]

Max(a, b) == IF a >= b THEN a ELSE b

\* sendMessage(ws, type, payload): the frame, or nothing when not OPEN
sendMessage(rs, type, arg) ==
    IF rs # "OPEN" THEN <<>> ELSE << <<type, arg>> >>

\* ws.close(code, reason) as seen through readyState
WsCloseState(rs) == IF rs = "OPEN" THEN "CLOSING" ELSE rs

\* Faulty variant: the type of the value is not checked.
normalizeVoiceName_NoTypeCheck(value) ==
    IF value.value \in VOICE_ALLOWLIST THEN value.value ELSE defaultVoice

normalizeVoiceName(value) ==
    IF value.isString /\ value.value \in VOICE_ALLOWLIST
    THEN value.value ELSE defaultVoice

\* Faulty variant: the allow-list is never consulted.
isAllowedOrigin_AllowAll(prod, origin) == TRUE

\* Faulty variant: a request without an Origin header is always let through.
isAllowedOrigin_NoOriginPasses(prod, origin) ==
    IF origin = NoOrigin THEN TRUE
    ELSE IF ~prod THEN TRUE
    ELSE origin \in allowedOrigins

\* Faulty variant: the request's own origin passes without being listed.
isAllowedOrigin_SelfPasses(prod, origin) ==
    IF ~prod THEN TRUE
    ELSE IF origin = NoOrigin THEN FALSE
    ELSE origin = ExpectedOrigin \/ origin \in allowedOrigins

isAllowedOrigin(prod, origin) ==
    IF ~prod THEN TRUE
    ELSE IF origin = NoOrigin THEN FALSE
    ELSE origin \in allowedOrigins

\* Faulty variant: both ceilings compared with > instead of >=.
withinConnectionLimit_OffByOne(totalConnections, byIp, clientIp) ==
    IF totalConnections > maxConnections THEN FALSE
    ELSE IF MapGet(byIp, clientIp, 0) > maxConnectionsPerIp THEN FALSE
    ELSE TRUE

withinConnectionLimit(totalConnections, byIp, clientIp) ==
    IF totalConnections >= maxConnections THEN FALSE
    ELSE IF MapGet(byIp, clientIp, 0) >= maxConnectionsPerIp THEN FALSE
    ELSE TRUE

\* Faulty variant: the window never restarts.
MessageLimitState_NoReset(s, t) == [s EXCEPT !.messageCount = @ + 1]

\* withinMessageLimit: the state it leaves, and its result
MessageLimitState(s, t) ==
    IF t - s.messageWindowStart >= messageWindowMs
    THEN [s EXCEPT !.messageWindowStart = t, !.messageCount = 1]
    ELSE [s EXCEPT !.messageCount = @ + 1]

withinMessageLimit(s, t) ==
    MessageLimitState(s, t).messageCount <= maxMessagesPerMinute

InitialState(ip, t) ==
    [clientIp |-> ip, closed |-> FALSE, starting |-> FALSE,
     connected |-> FALSE, session |-> 0, voiceName |-> defaultVoice,
     messageWindowStart |-> t, messageCount |-> 0, isAlive |-> TRUE]

\* -------------------------------------------------------------------- Init
\* GeminiLive constructor; onDisconnected counts the calls of that callback
\* since the latest connect() that went on to open a socket
NewClient ==
    [socket |-> 0, isConnected |-> FALSE, disconnectNotified |-> FALSE,
     isDisconnecting |-> FALSE, onDisconnected |-> 0]

\* a connect() call not made yet: readyState of its socket, the timeout, the
\* closure's `settled`, the calls of resolve and the value resolved
NoSocket ==
    [readyState |-> "NONE", timeoutId |-> FALSE, settled |-> FALSE,
     resolves |-> 0, value |-> "pending", startSent |-> FALSE,
     gotConnected |-> FALSE, errored |-> FALSE]

InitRelay ==
    /\ proc = "boot"
    /\ exitCode = -1
    /\ hasKey \in BOOLEAN
    /\ isProduction \in BOOLEAN
    /\ isShuttingDown = FALSE
    /\ listenerClosing = FALSE
    /\ failsafeArmed = FALSE
    /\ activeConnections = {}
    /\ connectionsByIp = <<>>
    /\ now = 0
    /\ readyState = [c \in ConnIds |-> "NONE"]
    /\ socketDead = [c \in ConnIds |-> FALSE]
    /\ wsErrored = [c \in ConnIds |-> FALSE]
    /\ closeFrame = [c \in ConnIds |-> NoFrame]
    /\ closingSince = [c \in ConnIds |-> 0]
    /\ state = [c \in ConnIds |-> InitialState("", 0)]
    /\ heartbeatTimer = [c \in ConnIds |-> FALSE]
    /\ startTimer = [c \in ConnIds |-> FALSE]
    /\ up = [c \in ConnIds |-> <<>>]
    /\ upVoice = [c \in ConnIds |-> defaultVoice]
    /\ last = Out("init", 0, 0, <<>>, FALSE, "")
    /\ REQUEST_COUNTS_BY_IP = <<>>
    /\ globalWindowStartedAt = 0
    /\ globalWindowCount = 0
    /\ inFlightTokenRequests = 0
    /\ tokenPc = [r \in 1..MaxRequests |-> "idle"]
    /\ tokenAdmitted = <<>>
    /\ tokenLast = [op |-> "init", r |-> 0, ip |-> "", status |-> 0]
    /\ wire = [c \in ConnIds |-> <<>>]
    /\ sentCount = [c \in ConnIds |-> 0]
    /\ forwarded = [c \in ConnIds |-> <<>>]
    /\ client = NewClient
    /\ sock = [s \in 1..MaxSockets |-> NoSocket]
    /\ clientLast = [op |-> "init", s |-> 0]

NoMessage ==
    [hasServerContent |-> FALSE, interrupted |-> FALSE, parts |-> <<>>,
     inputTranscription |-> [isString |-> FALSE, chars |-> <<>>],
     outputTranscription |-> [isString |-> FALSE, chars |-> <<>>]]

Init ==
    /\ InitRelay
    /\ fwdMessage = NoMessage
    /\ fwdReadyState = "NONE"
    /\ fwdFrames = <<>>
    /\ fwdDone = FALSE

\* validateConfig() then server.listen(): a missing credential throws at
\* start-up and the process never serves a request.
validateConfig ==
    /\ proc = "boot"
    /\ IF hasKey
       THEN /\ proc' = "running"
            /\ exitCode' = exitCode
       ELSE /\ proc' = "exited"
            /\ exitCode' = 1
    /\ last' = Out("validateConfig", 0, 0, <<>>, FALSE, "")
    /\ UNCHANGED <<hasKey, isProduction, isShuttingDown, listenerClosing,
                   failsafeArmed, admVars, now, wsVars, state, tmrVars, up, upVoice>>
    /\ UNCHANGED <<tokVars, ordVars, fwdVars, cliVars>>

\* Faulty variant: the in-flight connect is not checked.
StartIsNoop_IgnoreStarting(s) == s.session # 0

\* startGeminiSession returns at once when a connect is in flight or a
\* session is held
StartIsNoop(s) == s.starting \/ s.session # 0

\* ws.close(code, reason): only an OPEN socket starts the closing handshake
WsClose(c, code, reason) ==
    /\ readyState' = [readyState EXCEPT ![c] = WsCloseState(@)]
    /\ closeFrame' = IF readyState[c] = "OPEN"
                     THEN [closeFrame EXCEPT ![c] = [code |-> code, reason |-> reason]]
                     ELSE closeFrame
    /\ closingSince' = IF readyState[c] = "OPEN"
                       THEN [closingSince EXCEPT ![c] = now]
                       ELSE closingSince
    /\ UNCHANGED <<socketDead, wsErrored>>

\* ----------------------------------------------------- server.on('upgrade')
\* Faulty variant: the shutting-down flag is not checked.
UpgradeStatus_NoShutdownGuard(ip, origin, path) ==
    IF path = RelayPath
    THEN IF ~withinConnectionLimit(Cardinality(activeConnections),
                                   connectionsByIp, ip) THEN 429
         ELSE IF ~isAllowedOrigin(isProduction, origin) THEN 403
         ELSE 101
    ELSE 0

\* Faulty variant: the Origin Guard runs before the Admission Controller.
UpgradeStatus_OriginFirst(ip, origin, path) ==
    IF isShuttingDown THEN 503
    ELSE IF path = RelayPath
         THEN IF ~isAllowedOrigin(isProduction, origin) THEN 403
              ELSE IF ~withinConnectionLimit(Cardinality(activeConnections),
                                             connectionsByIp, ip) THEN 429
              ELSE 101
         ELSE 0

\* Faulty variant: the Admission Controller runs for every path.
UpgradeStatus_AdmitsEveryPath(ip, origin, path) ==
    IF isShuttingDown THEN 503
    ELSE IF ~withinConnectionLimit(Cardinality(activeConnections),
                                   connectionsByIp, ip) THEN 429
    ELSE IF path = RelayPath
         THEN IF ~isAllowedOrigin(isProduction, origin) THEN 403 ELSE 101
         ELSE 0

\* The status line written to the raw socket; 101 when the handshake is
\* completed by relayWss.handleUpgrade, 0 when the request is handed to the
\* application's own upgrade handler.
UpgradeStatus(ip, origin, path) ==
    IF isShuttingDown THEN 503
    ELSE IF path = RelayPath
         THEN IF ~withinConnectionLimit(Cardinality(activeConnections),
                                        connectionsByIp, ip) THEN 429
              ELSE IF ~isAllowedOrigin(isProduction, origin) THEN 403
              ELSE 101
         ELSE 0

\* relayWss.on('connection'): runs synchronously inside handleUpgrade
OnConnection(c, ip) ==
    /\ connectionsByIp' = MapSet(connectionsByIp, ip, MapGet(connectionsByIp, ip, 0) + 1)
    /\ activeConnections' = activeConnections \cup {c}
    /\ state' = [state EXCEPT ![c] = InitialState(ip, now)]
    /\ readyState' = [readyState EXCEPT ![c] = "OPEN"]
    /\ heartbeatTimer' = [heartbeatTimer EXCEPT ![c] = TRUE]
    /\ startTimer' = [startTimer EXCEPT ![c] = TRUE]
    /\ UNCHANGED <<socketDead, wsErrored, closeFrame, closingSince, up, upVoice>>

Upgrade(ip, origin, path) ==
    /\ proc = "running"
    /\ LET status == UpgradeStatus(ip, origin, path)
       IN IF status = 101
          THEN \E c \in ConnIds :
                  /\ readyState[c] = "NONE"
                  /\ \A d \in ConnIds : d < c => readyState[d] # "NONE"
                  /\ OnConnection(c, ip)
                  /\ last' = OutUpgrade(c, status, ip, origin, path)
          ELSE /\ last' = OutUpgrade(0, status, ip, origin, path)
               /\ UNCHANGED <<admVars, wsVars, state, tmrVars, up, upVoice>>
    /\ UNCHANGED <<procVars, now>>
    /\ UNCHANGED <<tokVars, ordVars, fwdVars, cliVars>>

\* ------------------------------------------------------ ws.on('message')
\* Faulty variant: every failure is reported as unknown.
normalizeError_Unknown(error) == "Unknown relay error"

\* normalizeError(error).message
normalizeError(error) ==
    IF error.kind = "Error" THEN error.message
    ELSE IF error.kind = "string" THEN error.message
    ELSE "Unknown relay error"

\* Faulty variant: a failed upstream send drops the session.
SendFailureState_DropsSession(s) ==
    [s EXCEPT !.session = 0, !.connected = FALSE]

\* catch (error) around sendRealtimeInput / sendClientContent: the state it
\* leaves
SendFailureState(s) == s

\* Faulty variant: a start message leaves the start timer pending.
ClearsStartTimer_Never(admitted, type) == FALSE

\* clearTimeout(startTimer): reached by every start message the limiter admits
ClearsStartTimer(admitted, type) == admitted /\ type = "start"

\* Faulty variant: the payload is never rejected by the parser.
ParseFails_Never(m) == FALSE

\* JSON.parse(raw.toString()) throws
ParseFails(m) == m.type = "badjson"

\* The handler up to its only await (inside startGeminiSession).
MessageHandler(c, m) ==
    /\ proc = "running"
    /\ readyState[c] \in {"OPEN", "CLOSING"}
    /\ ~socketDead[c]
    /\ LET s1        == MessageLimitState(state[c], now)
           rs        == readyState[c]
           admitted  == withinMessageLimit(state[c], now)
           isStart   == admitted /\ m.type = "start"
           startsNew == isStart /\ ~StartIsNoop(s1)
           inactive  == s1.session = 0 \/ ~s1.connected
           routed    == admitted /\ m.type \in {"audio", "text", "stop"} /\ ~inactive
           sends     == routed /\ m.type \in {"audio", "text"} /\ m.hasData
           sendThrew == sends /\ m.error # NoError
           frames    == IF ~admitted
                            THEN sendMessage(rs, "error", "Rate limit exceeded.")
                        ELSE IF ParseFails(m)
                            THEN sendMessage(rs, "error", "Invalid JSON payload.")
                        ELSE IF m.type # "start" /\ inactive
                            THEN sendMessage(rs, "error", "Relay session is not active.")
                        ELSE IF sendThrew
                            THEN sendMessage(rs, "error", normalizeError(m.error))
                        ELSE <<>>
           fwd       == IF sends /\ ~sendThrew THEN m.type ELSE ""
       IN /\ s1.messageCount <= maxMessagesPerMinute + MaxOver
          /\ startsNew => Len(up[c]) < MaxAttempts
          /\ state' = [state EXCEPT ![c] =
                 IF startsNew
                 THEN [s1 EXCEPT !.starting = TRUE,
                                 !.voiceName = normalizeVoiceName(m.voiceName)]
                 ELSE IF sendThrew THEN SendFailureState(s1)
                 ELSE s1]
          /\ up' = IF startsNew THEN [up EXCEPT ![c] = Append(@, "connecting")] ELSE up
          /\ upVoice' = IF startsNew
                        THEN [upVoice EXCEPT ![c] = normalizeVoiceName(m.voiceName)]
                        ELSE upVoice
          /\ startTimer' = IF ClearsStartTimer(admitted, m.type)
                           THEN [startTimer EXCEPT ![c] = FALSE] ELSE startTimer
          /\ IF ~admitted THEN WsClose(c, 1008, "Rate limit exceeded")
             ELSE IF routed /\ m.type = "stop" THEN WsClose(c, 1000, "Client requested stop")
             ELSE UNCHANGED wsVars
          /\ last' = [Out("message", c, 0, frames, admitted, fwd)
                          EXCEPT !.op = m.type,
                                 !.req = IF m.type = "start" THEN <<m.voiceName>>
                                         ELSE IF m.type \in {"audio", "text"}
                                             THEN <<m.error, m.hasData>>
                                         ELSE <<>>]
    /\ UNCHANGED <<procVars, admVars, now, heartbeatTimer>>
    /\ UNCHANGED <<tokVars, fwdVars, cliVars>>

\* a message event of a client whose traffic is not recorded
Message(c, m) == MessageHandler(c, m) /\ UNCHANGED ordVars

\* -------------------------------------------- startGeminiSession, resumed
\* client.live.connect resolves: the provider SDK invokes onopen and then
\* fulfils the promise within one turn of the event loop, so the callback,
\* the assignment to state.session and the finally block form one step.
ConnectResolve(c) ==
    /\ proc = "running"
    /\ up[c] # <<>>
    /\ up[c][Len(up[c])] = "connecting"
    /\ state' = [state EXCEPT ![c].connected = TRUE,
                              ![c].session = Len(up[c]),
                              ![c].starting = FALSE]
    /\ up' = [up EXCEPT ![c][Len(up[c])] = "open"]
    /\ last' = Out("onopen", c, 0,
                   sendMessage(readyState[c], "connected", upVoice[c]),
                   FALSE, "")
    /\ UNCHANGED <<procVars, admVars, now, wsVars, tmrVars, upVoice>>
    /\ UNCHANGED <<tokVars, ordVars, fwdVars, cliVars>>

\* client.live.connect rejects: catch and finally
ConnectReject(c, error) ==
    /\ proc = "running"
    /\ up[c] # <<>>
    /\ up[c][Len(up[c])] = "connecting"
    /\ state' = [state EXCEPT ![c].starting = FALSE]
    /\ up' = [up EXCEPT ![c][Len(up[c])] = "failed"]
    /\ WsClose(c, 1011, "Failed to initialize relay")
    /\ last' = [Out("connectFailed", c, 0,
                    sendMessage(readyState[c], "error", normalizeError(error)),
                    FALSE, "")
                    EXCEPT !.req = <<error>>]
    /\ UNCHANGED <<procVars, admVars, now, tmrVars, upVoice>>
    /\ UNCHANGED <<tokVars, ordVars, fwdVars, cliVars>>

\* ------------------------------------------------- forwardGeminiMessage
RECURSIVE TrimStart(_)
TrimStart(chars) ==
    IF chars # <<>> /\ Head(chars) = " " THEN TrimStart(Tail(chars)) ELSE chars

RECURSIVE TrimEnd(_)
TrimEnd(chars) ==
    IF chars # <<>> /\ chars[Len(chars)] = " "
    THEN TrimEnd(SubSeq(chars, 1, Len(chars) - 1))
    ELSE chars

\* String.prototype.trim
Trim(chars) == TrimEnd(TrimStart(chars))

\* Faulty variant: the text is not trimmed before the test.
HasText_NoTrim(text) == text.isString /\ text.chars # <<>>

\* typeof text === 'string' && text.trim()
HasText(text) == text.isString /\ Trim(text.chars) # <<>>

\* sendMessage(ws, 'transcript', { speaker, text })
TranscriptFrame(rs, speaker, text) ==
    IF rs = "OPEN" THEN << <<"transcript", speaker, text.chars>> >> ELSE <<>>

RECURSIVE PartFrames(_, _)
PartFrames(rs, parts) ==
    IF parts = <<>> THEN <<>>
    ELSE LET part == Head(parts)
         IN (IF part.data # "" THEN sendMessage(rs, "audio", part.data) ELSE <<>>)
            \o (IF HasText(part.text)
                THEN TranscriptFrame(rs, "ai", part.text) ELSE <<>>)
            \o PartFrames(rs, Tail(parts))

\* the model turn's parts, then the input and the output transcription
ContentFrames(rs, message) ==
    PartFrames(rs, message.parts)
    \o (IF HasText(message.inputTranscription)
        THEN TranscriptFrame(rs, "user", message.inputTranscription) ELSE <<>>)
    \o (IF HasText(message.outputTranscription)
        THEN TranscriptFrame(rs, "ai", message.outputTranscription) ELSE <<>>)

\* Faulty variant: no return after the interrupted frame.
forwardGeminiMessage_FallsThrough(rs, message) ==
    IF ~message.hasServerContent THEN <<>>
    ELSE (IF message.interrupted THEN sendMessage(rs, "interrupted", "") ELSE <<>>)
         \o ContentFrames(rs, message)

forwardGeminiMessage(rs, message) ==
    IF ~message.hasServerContent THEN <<>>
    ELSE IF message.interrupted THEN sendMessage(rs, "interrupted", "")
    ELSE ContentFrames(rs, message)

\* callbacks.onmessage of attempt k
UpstreamMessage(c, k, message) ==
    /\ proc = "running"
    /\ k \in 1..Len(up[c])
    /\ up[c][k] \in {"open", "closeCalled", "closeThrew"}
    /\ last' = [Out("onmessage", c, 0,
                    forwardGeminiMessage(readyState[c], message), FALSE, "")
                    EXCEPT !.req = <<message>>]
    /\ UNCHANGED <<procVars, admVars, now, wsVars, state, tmrVars, up, upVoice>>
    /\ UNCHANGED <<tokVars, ordVars, fwdVars, cliVars>>

\* event.reason of the upstream close event; "" when it carries none
CloseReasons == {"", "quota exceeded"}

\* Faulty variant: the upstream reason is never passed on.
DisconnectReason_AlwaysDefault(reason) == "Gemini session closed"

\* event?.reason || 'Gemini session closed'
DisconnectReason(reason) ==
    IF reason = "" THEN "Gemini session closed" ELSE reason

\* callbacks.onclose of attempt k
UpstreamClose(c, k, reason) ==
    /\ proc = "running"
    /\ k \in 1..Len(up[c])
    /\ up[c][k] \in {"open", "closeCalled", "closeThrew"}
    /\ up' = [up EXCEPT ![c][k] = "closed"]
    /\ state' = [state EXCEPT ![c].connected = FALSE, ![c].session = 0]
    /\ IF state[c].closed
       THEN /\ last' = [Out("onclose", c, 0, <<>>, FALSE, "")
                            EXCEPT !.req = <<reason>>]
            /\ UNCHANGED wsVars
       ELSE /\ last' = [Out("onclose", c, 0,
                            sendMessage(readyState[c], "disconnected",
                                        DisconnectReason(reason)),
                            FALSE, "")
                            EXCEPT !.req = <<reason>>]
            /\ WsClose(c, 1011, "Gemini session closed")
    /\ UNCHANGED <<procVars, admVars, now, tmrVars, upVoice>>
    /\ UNCHANGED <<tokVars, ordVars, fwdVars, cliVars>>

\* ------------------------------------------------------- closeConnection
\* Faulty variant: no try/catch around state.session.close().
CloseEscapes_NoCatch(threw) == threw

\* try { state.session.close() } catch {}: whether an exception thrown by the
\* upstream close leaves stopGeminiSession
CloseEscapes(threw) == FALSE

\* Faulty variant: the connected flag is left as it was.
stopGeminiSession_KeepsConnected(s, threw) ==
    IF s.session = 0 THEN s
    ELSE IF CloseEscapes(threw) THEN s
    ELSE [s EXCEPT !.session = 0]

stopGeminiSession(s, threw) ==
    IF s.session = 0 THEN s
    ELSE IF CloseEscapes(threw) THEN s
    ELSE [s EXCEPT !.session = 0, !.connected = FALSE]

\* state.session.close() as seen by the upstream attempts of one Connection
SessionCloseCalled(u, s, threw) ==
    IF s.session = 0 THEN u
    ELSE [u EXCEPT ![s.session] =
              IF @ = "open" THEN (IF threw THEN "closeThrew" ELSE "closeCalled")
              ELSE IF @ \in {"closeCalled", "closeThrew"} THEN "closeCalledTwice"
              ELSE @]

\* an exception of the upstream close propagates out of closeConnection
CloseAborted(c, threw) == state[c].session # 0 /\ CloseEscapes(threw)

\* Faulty variant: a count that reaches zero is stored instead of removed.
DecrementIp_KeepZero(m, ip) ==
    MapSet(m, ip, Max(MapGet(m, ip, 1) - 1, 0))

DecrementIp_Clear(m, ip) == <<>>

DecrementIp(m, ip) ==
    LET nextCount == Max(MapGet(m, ip, 1) - 1, 0)
    IN IF nextCount = 0 THEN MapDelete(m, ip) ELSE MapSet(m, ip, nextCount)

ClearTimer_Noop(timers, c) == timers

\* clearInterval(heartbeatTimer) / clearTimeout(startTimer)
ClearTimer(timers, c) == [timers EXCEPT ![c] = FALSE]

closeConnection(c, threw) ==
    /\ heartbeatTimer' = ClearTimer(heartbeatTimer, c)
    /\ startTimer' = ClearTimer(startTimer, c)
    /\ state' = [state EXCEPT ![c] =
                     stopGeminiSession([@ EXCEPT !.closed = TRUE], threw)]
    /\ up' = [up EXCEPT ![c] = SessionCloseCalled(@, state[c], threw)]
    /\ UNCHANGED upVoice
    /\ IF CloseAborted(c, threw)
       THEN UNCHANGED <<activeConnections, connectionsByIp>>
       ELSE /\ activeConnections' = activeConnections \ {c}
            /\ connectionsByIp' = DecrementIp(connectionsByIp, state[c].clientIp)

\* ws emits 'close': the socket is gone, readyState is CLOSED
WsCloseEvent(c, threw) ==
    /\ proc = "running"
    /\ readyState[c] \in {"OPEN", "CLOSING"}
    /\ threw => state[c].session # 0
    /\ readyState' = [readyState EXCEPT ![c] = "CLOSED"]
    /\ socketDead' = [socketDead EXCEPT ![c] = TRUE]
    /\ closeConnection(c, threw)
    /\ last' = [Out("close", c, 0, <<>>, FALSE,
                    IF CloseAborted(c, threw) THEN "uncaught" ELSE "")
                    EXCEPT !.req = <<threw>>]
    /\ UNCHANGED <<procVars, now, wsErrored, closeFrame, closingSince>>
    /\ UNCHANGED <<tokVars, ordVars, fwdVars, cliVars>>

\* ws emits 'error' (at most once); its 'close' follows as a separate event
WsErrorEvent(c, threw) ==
    /\ proc = "running"
    /\ readyState[c] \in {"OPEN", "CLOSING"}
    /\ threw => state[c].session # 0
    /\ ~wsErrored[c]
    /\ ~socketDead[c]
    /\ readyState' = [readyState EXCEPT ![c] = "CLOSING"]
    /\ socketDead' = [socketDead EXCEPT ![c] = TRUE]
    /\ wsErrored' = [wsErrored EXCEPT ![c] = TRUE]
    /\ closeConnection(c, threw)
    /\ last' = [Out("error", c, 0, <<>>, FALSE,
                    IF CloseAborted(c, threw) THEN "uncaught" ELSE "")
                    EXCEPT !.req = <<threw>>]
    /\ UNCHANGED <<procVars, now, closeFrame, closingSince>>
    /\ UNCHANGED <<tokVars, ordVars, fwdVars, cliVars>>

\* ------------------------------------------------------------------ timers
\* Faulty variant: a silent peer is never terminated.
HeartbeatTerminates_Never(s) == FALSE

\* if (!state.isAlive) ws.terminate()
HeartbeatTerminates(s) == ~s.isAlive

Heartbeat(c) ==
    /\ proc = "running"
    /\ heartbeatTimer[c]
    /\ IF HeartbeatTerminates(state[c])
       THEN /\ readyState' = [readyState EXCEPT ![c] =
                                 IF @ = "CLOSED" THEN @ ELSE "CLOSING"]
            /\ socketDead' = [socketDead EXCEPT ![c] = TRUE]
            /\ state' = state
            /\ last' = Out("heartbeat", c, 0, <<>>, FALSE, "terminate")
       ELSE /\ state' = [state EXCEPT ![c].isAlive = FALSE]
            /\ last' = Out("heartbeat", c, 0,
                           sendMessage(readyState[c], "ping", ""), FALSE, "")
            /\ UNCHANGED <<readyState, socketDead>>
    /\ UNCHANGED <<procVars, admVars, now, wsErrored, closeFrame, closingSince,
                   tmrVars, up, upVoice>>
    /\ UNCHANGED <<tokVars, ordVars, fwdVars, cliVars>>

Pong(c) ==
    /\ proc = "running"
    /\ readyState[c] \in {"OPEN", "CLOSING"}
    /\ ~socketDead[c]
    /\ state' = [state EXCEPT ![c].isAlive = TRUE]
    /\ last' = Out("pong", c, 0, <<>>, FALSE, "")
    /\ UNCHANGED <<procVars, admVars, now, wsVars, tmrVars, up, upVoice>>
    /\ UNCHANGED <<tokVars, ordVars, fwdVars, cliVars>>

StartTimeout(c) ==
    /\ proc = "running"
    /\ startTimer[c]
    /\ startTimer' = [startTimer EXCEPT ![c] = FALSE]
    /\ IF state[c].session = 0 /\ readyState[c] = "OPEN"
       THEN /\ WsClose(c, 1008, "Start timeout")
            /\ last' = Out("startTimeout", c, 0,
                           sendMessage(readyState[c], "error", "Start message timeout."),
                           FALSE, "")
       ELSE /\ UNCHANGED wsVars
            /\ last' = Out("startTimeout", c, 0, <<>>, FALSE, "")
    /\ UNCHANGED <<procVars, admVars, now, state, heartbeatTimer, up, upVoice>>
    /\ UNCHANGED <<tokVars, ordVars, fwdVars, cliVars>>

\* The clock advances.  A socket the relay is closing is destroyed by the
\* ws close timer before closeTimeout has passed, so time cannot run past it.
Tick ==
    /\ proc = "running"
    /\ now < MaxTicks * TickMs
    /\ \A c \in ConnIds :
          (readyState[c] = "CLOSING" /\ closeFrame[c].code # 0)
              => (now + TickMs) - closingSince[c] < closeTimeout
    /\ now' = now + TickMs
    /\ last' = Out("tick", 0, 0, <<>>, FALSE, "")
    /\ UNCHANGED <<procVars, admVars, wsVars, state, tmrVars, up, upVoice>>
    /\ UNCHANGED <<tokVars, ordVars, fwdVars, cliVars>>

\* ---------------------------------------------------------- plain HTTP
\* Faulty variant: readiness ignores the shutting-down flag.
ReadyzStatus_IgnoreShutdown(shuttingDown, key) ==
    IF key THEN 200 ELSE 503

ReadyzStatus(shuttingDown, key) ==
    IF ~shuttingDown /\ key THEN 200 ELSE 503

Readyz ==
    /\ proc = "running"
    /\ last' = Out("readyz", 0, ReadyzStatus(isShuttingDown, hasKey), <<>>, FALSE,
                   IF ReadyzStatus(isShuttingDown, hasKey) = 200
                   THEN "ready" ELSE "not-ready")
    /\ UNCHANGED <<procVars, admVars, now, wsVars, state, tmrVars, up, upVoice>>
    /\ UNCHANGED <<tokVars, ordVars, fwdVars, cliVars>>

\* ------------------------------------------------------- gracefulShutdown
\* Faulty variant: the shutdown close uses the going-away code.
ShutdownCloseFrame_GoingAway(cf, rs, active) ==
    [c \in ConnIds |->
        IF c \in active /\ rs[c] = "OPEN"
        THEN [code |-> 1001, reason |-> "Server restarting"]
        ELSE cf[c]]

ShutdownCloseFrame(cf, rs, active) ==
    [c \in ConnIds |->
        IF c \in active /\ rs[c] = "OPEN"
        THEN [code |-> 1012, reason |-> "Server restarting"]
        ELSE cf[c]]

ShutdownIsNoop_Never(flag) == FALSE

\* if (isShuttingDown) return;
ShutdownIsNoop(flag) == flag

gracefulShutdown ==
    /\ proc = "running"
    /\ IF ShutdownIsNoop(isShuttingDown)
       THEN UNCHANGED <<isShuttingDown, listenerClosing, failsafeArmed, wsVars>>
       ELSE /\ isShuttingDown' = TRUE
            /\ readyState' = [c \in ConnIds |->
                                 IF c \in activeConnections
                                 THEN WsCloseState(readyState[c])
                                 ELSE readyState[c]]
            /\ closeFrame' = ShutdownCloseFrame(closeFrame, readyState, activeConnections)
            /\ closingSince' = [c \in ConnIds |->
                                   IF c \in activeConnections /\ readyState[c] = "OPEN"
                                   THEN now ELSE closingSince[c]]
            /\ listenerClosing' = TRUE
            /\ failsafeArmed' = TRUE
            /\ UNCHANGED <<socketDead, wsErrored>>
    /\ last' = Out("signal", 0, 0, <<>>, FALSE,
                   IF ShutdownIsNoop(isShuttingDown) THEN "ignored" ELSE "started")
    /\ UNCHANGED <<proc, exitCode, hasKey, isProduction, admVars, now, state,
                   tmrVars, up, upVoice>>
    /\ UNCHANGED <<tokVars, ordVars, fwdVars, cliVars>>

\* process.exit status chosen by the server.close callback
ListenerExitCode(error) == IF error THEN 1 ELSE 0

\* server.close(cb) calls back once every socket of the listener has ended,
\* or at once with an error when the listener was not running.
ListenerClosed(error) ==
    /\ proc = "running"
    /\ listenerClosing
    /\ error \/ \A c \in ConnIds : readyState[c] \in {"NONE", "CLOSED"}
    /\ proc' = "exited"
    /\ exitCode' = ListenerExitCode(error)
    /\ listenerClosing' = FALSE
    /\ last' = Out("listenerClosed", 0, 0, <<>>, FALSE,
                   IF error THEN "error" ELSE "clean")
    /\ UNCHANGED <<hasKey, isProduction, isShuttingDown, failsafeArmed, admVars,
                   now, wsVars, state, tmrVars, up, upVoice>>
    /\ UNCHANGED <<tokVars, ordVars, fwdVars, cliVars>>

Failsafe_Disarmed == FALSE /\ UNCHANGED vars

\* the 10 s timer armed by gracefulShutdown fires: process.exit(1)
Failsafe ==
    /\ proc = "running"
    /\ failsafeArmed
    /\ proc' = "exited"
    /\ exitCode' = 1
    /\ failsafeArmed' = FALSE
    /\ last' = Out("failsafe", 0, 0, <<>>, FALSE, "")
    /\ UNCHANGED <<hasKey, isProduction, isShuttingDown, listenerClosing, admVars,
                   now, wsVars, state, tmrVars, up, upVoice>>
    /\ UNCHANGED <<tokVars, ordVars, fwdVars, cliVars>>

\* -------------------------------------------------------------------- Next
Next ==
    \/ validateConfig
    \/ \E ip \in IPs, origin \in Origins, path \in Paths : Upgrade(ip, origin, path)
    \/ \E c \in ConnIds, m \in Messages : Message(c, m)
    \/ \E c \in ConnIds : ConnectResolve(c)
    \/ \E c \in ConnIds, error \in Errors : ConnectReject(c, error)
    \/ \E c \in ConnIds, k \in 1..MaxAttempts, reason \in CloseReasons :
           UpstreamClose(c, k, reason)
    \/ \E c \in ConnIds, k \in 1..MaxAttempts, message \in GeminiMessages :
           UpstreamMessage(c, k, message)
    \/ \E c \in ConnIds, threw \in BOOLEAN : WsCloseEvent(c, threw)
    \/ \E c \in ConnIds, threw \in BOOLEAN : WsErrorEvent(c, threw)
    \/ \E c \in ConnIds : Heartbeat(c)
    \/ \E c \in ConnIds : Pong(c)
    \/ \E c \in ConnIds : StartTimeout(c)
    \/ Tick
    \/ Readyz
    \/ gracefulShutdown
    \/ \E error \in BOOLEAN : ListenerClosed(error)
    \/ Failsafe

Spec == Init /\ [][Next]_vars

\* The router, the admission counters and the shutdown coordinator, for
\* clients that connect and disconnect without sending frames.
NextRouter ==
    \/ validateConfig
    \/ \E ip \in IPs, origin \in Origins, path \in Paths : Upgrade(ip, origin, path)
    \/ \E c \in ConnIds, threw \in BOOLEAN : WsCloseEvent(c, threw)
    \/ \E c \in ConnIds, threw \in BOOLEAN : WsErrorEvent(c, threw)
    \/ Readyz
    \/ gracefulShutdown
    \/ \E error \in BOOLEAN : ListenerClosed(error)
    \/ Failsafe

SpecRouter == Init /\ [][NextRouter]_vars

\* The session state machine of one Connection: the relay serving the first
\* client that connects, with every message, upstream and timer event.
FirstUpgrade(ip, origin, path) ==
    /\ \A c \in ConnIds : readyState[c] = "NONE"
    /\ Upgrade(ip, origin, path)

NextSession ==
    \/ validateConfig
    \/ \E ip \in IPs, origin \in Origins, path \in Paths : FirstUpgrade(ip, origin, path)
    \/ \E c \in ConnIds, m \in Messages : Message(c, m)
    \/ \E c \in ConnIds : ConnectResolve(c)
    \/ \E c \in ConnIds, error \in Errors : ConnectReject(c, error)
    \/ \E c \in ConnIds, k \in 1..MaxAttempts, reason \in CloseReasons :
           UpstreamClose(c, k, reason)
    \/ \E c \in ConnIds, threw \in BOOLEAN : WsCloseEvent(c, threw)
    \/ \E c \in ConnIds, threw \in BOOLEAN : WsErrorEvent(c, threw)
    \/ \E c \in ConnIds : StartTimeout(c)
    \/ Tick
    \/ gracefulShutdown
    \/ \E error \in BOOLEAN : ListenerClosed(error)
    \/ Failsafe

SpecSession == Init /\ [][NextSession]_vars

\* The upstream-to-browser direction of one Connection: one client, its
\* started session and the messages the upstream delivers to it, also after
\* the browser socket has closed.
OneClientUpgrade(origin, path) ==
    FirstUpgrade(CHOOSE ip \in IPs : TRUE, origin, path)

\* the client's first message is its start
StartMessage(c, m) ==
    /\ m.type = "start"
    /\ state[c].messageCount = 0
    /\ Message(c, m)

NextUpstream ==
    \/ validateConfig
    \/ \E origin \in Origins, path \in Paths : OneClientUpgrade(origin, path)
    \/ \E c \in ConnIds, m \in Messages : StartMessage(c, m)
    \/ \E c \in ConnIds : ConnectResolve(c)
    \/ \E c \in ConnIds, k \in 1..MaxAttempts, message \in GeminiMessages :
           UpstreamMessage(c, k, message)
    \/ \E c \in ConnIds, threw \in BOOLEAN : WsCloseEvent(c, threw)

SpecUpstream == Init /\ [][NextUpstream]_vars

\* The liveness probe of one Connection: heartbeat ticks and pongs, while the
\* socket is open, while the relay is closing it and until its close event.
NextHeartbeat ==
    \/ validateConfig
    \/ \E ip \in IPs, origin \in Origins, path \in Paths : FirstUpgrade(ip, origin, path)
    \/ \E c \in ConnIds : Heartbeat(c)
    \/ \E c \in ConnIds : Pong(c)
    \/ \E c \in ConnIds : StartTimeout(c)
    \/ \E c \in ConnIds, threw \in BOOLEAN : WsCloseEvent(c, threw)
    \/ \E c \in ConnIds, threw \in BOOLEAN : WsErrorEvent(c, threw)

SpecHeartbeat == Init /\ [][NextHeartbeat]_vars


\* ================================================================ properties
MessageOps == {m.type : m \in Messages}

LiveAttempts(c) ==
    {k \in 1..Len(up[c]) :
        up[c][k] \in {"connecting", "open", "closeCalled", "closeThrew"}}

BadOriginRelayUpgrade ==
    /\ last.op = "upgrade"
    /\ isProduction
    /\ last.req[3] = RelayPath
    /\ last.req[2] \notin allowedOrigins

C1_CapsHold ==
    /\ \A ip \in DOMAIN connectionsByIp : connectionsByIp[ip] <= maxConnectionsPerIp
    /\ Cardinality(activeConnections) <= maxConnections

C1_AdmitStep ==
    (last'.op = "upgrade" /\ last'.http = 101) =>
        /\ Cardinality(activeConnections) < maxConnections
        /\ MapGet(connectionsByIp, last'.req[1], 0) < maxConnectionsPerIp
        /\ activeConnections' = activeConnections \cup {last'.conn}
        /\ last'.conn \notin activeConnections
        /\ connectionsByIp' = MapSet(connectionsByIp, last'.req[1],
                                     MapGet(connectionsByIp, last'.req[1], 0) + 1)

C2_LateSessionClosed ==
    \A c \in ConnIds :
        (state[c].closed /\ ~state[c].starting) =>
            \A k \in 1..Len(up[c]) : up[c][k] # "open"

\* C3: closed is terminal: a Connection whose close handler has run holds no
\* upstream session handle and is not connected.
C3_ClosedTerminal ==
    \A c \in ConnIds :
        state[c].closed => (state[c].session = 0 /\ ~state[c].connected)

C4_AtMostOne == \A c \in ConnIds : Cardinality(LiveAttempts(c)) <= 1

C4_StartWhileBusy(c) ==
    /\ last'.op = "start"
    /\ last'.conn = c
    /\ (state[c].starting \/ state[c].connected)

C4_StartNoopAlways ==
    \A c \in ConnIds :
        C4_StartWhileBusy(c) => (up' = up /\ last'.frames = <<>>)

C4_StartNoop ==
    \A c \in ConnIds :
        C4_StartWhileBusy(c) =>
            /\ up' = up
            /\ last'.parsed => last'.frames = <<>>
            /\ ~last'.parsed =>
                  last'.frames = sendMessage(readyState[c], "error", "Rate limit exceeded.")

\* C4 (as claimed): a start message received while the Session is starting or
\* connected requests no upstream connect and sends no frame, and a Connection
\* never has more than one live upstream session.
C4_Original == []C4_AtMostOne /\ [][C4_StartNoopAlways]_vars

\* C4 (amended): a start message received while the Session is starting or
\* connected requests no upstream connect; it sends no frame when the message
\* limiter admits it and only the rate-limit error when it is over the
\* ceiling; a Connection never has more than one live upstream session.
C4_StartIdempotent == []C4_AtMostOne /\ [][C4_StartNoop]_vars

C4_Witness ==
    /\ last.op = "start"
    /\ last.parsed
    /\ state[1].connected
    /\ up[1] = <<"open">>
    /\ readyState[1] = "OPEN"

\* C5: a message over the per-minute ceiling leaves the Connection closing,
\* with code 1008 when the rate limit is what closed it, and once the rate
\* limit has closed a Connection none of its later messages is parsed.
C5_RateLimitTerminal ==
    (last.op \in MessageOps) =>
        /\ ~last.parsed => readyState[last.conn] # "OPEN"
        /\ closeFrame[last.conn].reason = "Rate limit exceeded"
              => (closeFrame[last.conn].code = 1008 /\ ~last.parsed)

C6_SignalStep ==
    (last'.op = "signal" /\ ~isShuttingDown) =>
        \A c \in ConnIds :
            readyState[c] = "OPEN" =>
                /\ readyState'[c] = "CLOSING"
                /\ closeFrame'[c] = [code |-> 1012, reason |-> "Server restarting"]

C6_CleanExit ==
    (last.op = "listenerClosed" /\ last.fwd = "clean") =>
        (proc = "exited" /\ exitCode = 0)

\* C6: the termination signal sends a close with code 1012, 'Server
\* restarting', to every OPEN Connection, and the process exits with code 0
\* when the listener's close callback reports no error.
C6_GracefulShutdown == []C6_CleanExit /\ [][C6_SignalStep]_vars

C6_Witness ==
    /\ exitCode = 0
    /\ Cardinality({c \in ConnIds : closeFrame[c].code = 1012}) >= 2

C7_Step ==
    isShuttingDown =>
        /\ isShuttingDown'
        /\ activeConnections' \subseteq activeConnections
        /\ last'.op = "upgrade" =>
              (last'.http = 503 /\ last'.conn = 0 /\ readyState' = readyState)

\* C7: once the shutting-down flag is set it stays set, every upgrade is
\* answered 503 without creating a WebSocket, and the tracked Connection set
\* gains no member.
C7_NoUpgradeAfterSignal == [][C7_Step]_vars

C7_Witness ==
    /\ isShuttingDown
    /\ last.op = "upgrade"
    /\ last.http = 503
    /\ last.req[3] = RelayPath
    /\ activeConnections # {}

\* C8: GET /readyz answers 503 'not-ready' whenever the shutting-down flag is
\* set or the credential is missing, and 200 'ready' otherwise.
C8_Readyz ==
    (last.op = "readyz") =>
        IF isShuttingDown \/ ~hasKey
        THEN last.http = 503 /\ last.fwd = "not-ready"
        ELSE last.http = 200 /\ last.fwd = "ready"

C8_Witness ==
    /\ last.op = "readyz"
    /\ last.http = 503
    /\ isShuttingDown
    /\ \E c \in ConnIds : readyState[c] = "CLOSING"

\* C9 (as claimed): in production every relay-path upgrade whose Origin is not
\* in the allow-list is answered 403 and creates no Connection.
C9_Original ==
    BadOriginRelayUpgrade => (last.http = 403 /\ last.conn = 0)

\* C9 (amended): in production a relay-path upgrade whose Origin is not in the
\* allow-list never completes a handshake; it is answered 503 while shutting
\* down, else 429 when over a connection cap, else 403.
C9_Amended ==
    BadOriginRelayUpgrade =>
        /\ last.conn = 0
        /\ last.http =
              IF isShuttingDown THEN 503
              ELSE IF \/ Cardinality(activeConnections) >= maxConnections
                      \/ MapGet(connectionsByIp, last.req[1], 0) >= maxConnectionsPerIp
                   THEN 429
                   ELSE 403

C9_Witness ==
    /\ BadOriginRelayUpgrade
    /\ last.req[2] = "https://evil.example"
    /\ last.http = 403

\* C10 (as claimed): whenever the Origin Guard decides a request that carries
\* no Origin header, it allows it.
C10_Original ==
    (/\ last.op = "upgrade"
     /\ last.req[2] = NoOrigin
     /\ last.http \in {101, 403})
    => last.http = 101

\* C10 (amended): the Origin Guard allows a request without an Origin header
\* exactly when the process is not in production mode.
C10_Amended ==
    (/\ last.op = "upgrade"
     /\ last.req[2] = NoOrigin
     /\ last.http \in {101, 403})
    => (last.http = 101 <=> ~isProduction)

C10_Witness ==
    /\ last.op = "upgrade"
    /\ last.req[2] = NoOrigin
    /\ last.http = 403
    /\ isProduction


OriginDecided ==
    /\ last.op = "upgrade"
    /\ isProduction
    /\ last.req[2] # NoOrigin
    /\ last.http \in {101, 403}

\* C11 (as claimed): in production the Origin Guard allows an origin equal to
\* the request's own expected origin even when unlisted, and any other origin
\* exactly when it is in the allow-list.
C11_Original ==
    OriginDecided =>
        (last.http = 101 <=>
            (last.req[2] = ExpectedOrigin \/ last.req[2] \in allowedOrigins))

\* C11 (amended): in production the Origin Guard allows an origin exactly when
\* it is a member of the allow-list; the request's own expected origin gets no
\* special treatment.
C11_Amended ==
    OriginDecided => (last.http = 101 <=> last.req[2] \in allowedOrigins)

C11_Witness ==
    /\ OriginDecided
    /\ last.req[2] = ExpectedOrigin
    /\ last.http = 403


C12_StopStep ==
    (/\ last'.op = "stop"
     /\ last'.parsed
     /\ readyState[last'.conn] = "OPEN") =>
        /\ readyState'[last'.conn] = "CLOSING"
        /\ closeFrame'[last'.conn].code = 1000

\* C12: a stop message received on an open Connection closes that Connection
\* with the normal status code 1000, whatever the session state (no start
\* received, start in flight, connected).
C12_StopClosesNormally == [][C12_StopStep]_vars

C13_DropStep ==
    (/\ last'.op \in {"audio", "text"}
     /\ last'.parsed
     /\ readyState[last'.conn] = "OPEN"
     /\ (state[last'.conn].session = 0 \/ ~state[last'.conn].connected)) =>
        /\ last'.frames = <<>>
        /\ last'.fwd = ""
        /\ readyState'[last'.conn] = "OPEN"
        /\ state'[last'.conn].session = state[last'.conn].session
        /\ state'[last'.conn].connected = state[last'.conn].connected
        /\ state'[last'.conn].starting = state[last'.conn].starting

\* C13: an audio or text message received while the Session is not connected
\* is silently dropped: nothing is forwarded upstream, no frame is sent to the
\* browser, and the Connection stays open with its session state unchanged.
C13_SilentDrop == [][C13_DropStep]_vars


C14_OncloseStep ==
    (last'.op = "onclose") =>
        LET c == last'.conn
        IN /\ state'[c] = [state[c] EXCEPT !.session = 0, !.connected = FALSE]
           /\ (readyState[c] = "OPEN" /\ ~state[c].closed) =>
                 /\ last'.frames =
                       << <<"disconnected",
                            IF last'.req[1] = "" THEN "Gemini session closed"
                                                 ELSE last'.req[1]>> >>
                 /\ readyState'[c] = "CLOSING"
                 /\ closeFrame'[c] = [code |-> 1011, reason |-> "Gemini session closed"]
           /\ state[c].closed =>
                 /\ last'.frames = <<>>
                 /\ UNCHANGED wsVars

\* C14: when the upstream session closes while the Connection is still open,
\* exactly one disconnected frame with the upstream reason (or the default) is
\* sent and the Connection is closed with 1011; when the Connection has already
\* closed, nothing is sent and only the session handle and connected flag are
\* cleared.
C14_UpstreamClose == [][C14_OncloseStep]_vars

C14_Witness ==
    /\ last.op = "onclose"
    /\ last.req = <<"quota exceeded">>
    /\ last.frames = << <<"disconnected", "quota exceeded">> >>
    /\ closeFrame[last.conn].code = 1011


C15_FailureText ==
    IF last'.req[1].kind = "other" THEN "Unknown relay error"
    ELSE last'.req[1].message

C15_OriginalStep ==
    (last'.op = "connectFailed") =>
        LET c == last'.conn
        IN /\ last'.frames = << <<"error", C15_FailureText>> >>
           /\ readyState'[c] = "CLOSING"
           /\ closeFrame'[c].code = 1011
           /\ state'[c].session = 0
           /\ ~state'[c].starting

\* C15 (as claimed): when the upstream connect of a start fails, the relay
\* sends one error frame carrying only the failure's message text and closes
\* the Connection with code 1011; the Session ends with no upstream handle and
\* starting cleared.
C15_Original == [][C15_OriginalStep]_vars

C15_AmendedStep ==
    (last'.op = "connectFailed") =>
        LET c == last'.conn
        IN /\ state'[c] = [state[c] EXCEPT !.starting = FALSE]
           /\ state'[c].session = 0
           /\ IF readyState[c] = "OPEN"
              THEN /\ last'.frames = << <<"error", C15_FailureText>> >>
                   /\ readyState'[c] = "CLOSING"
                   /\ closeFrame'[c] =
                          [code |-> 1011, reason |-> "Failed to initialize relay"]
              ELSE /\ last'.frames = <<>>
                   /\ UNCHANGED wsVars

\* C15 (amended): when the upstream connect of a start fails, the Session ends
\* with no upstream handle and starting cleared; if the socket is still OPEN
\* at that moment the relay sends one error frame carrying only the failure's
\* message text and closes with 1011, otherwise it sends nothing and leaves
\* the socket as it is.
C15_Amended == [][C15_AmendedStep]_vars

C15_Witness ==
    /\ last.op = "connectFailed"
    /\ last.req[1].kind = "string"
    /\ last.frames = << <<"error", "quota exceeded">> >>
    /\ closeFrame[last.conn].code = 1011
    /\ ~state[last.conn].starting


C16_TeardownStep ==
    (last'.op \in {"close", "error"}) =>
        LET c == last'.conn
        IN /\ last'.fwd # "uncaught"
           /\ state'[c].closed
           /\ state'[c].session = 0
           /\ ~state'[c].connected

C16_CloseAtMostOnce ==
    \A c \in ConnIds :
        \A k \in 1..Len(up[c]) : up[c][k] # "closeCalledTwice"

\* C16: teardown is idempotent: when the close handler runs twice for one
\* Connection (error and close both fire), the upstream session's close is
\* invoked at most once, no exception escapes even if the upstream close
\* throws, and afterwards the session handle is null and connected is false.
C16_TeardownIdempotent == []C16_CloseAtMostOnce /\ [][C16_TeardownStep]_vars

C16_Witness ==
    /\ last.op = "close"
    /\ wsErrored[last.conn]
    /\ state[last.conn].closed
    /\ \E k \in 1..Len(up[last.conn]) : up[last.conn][k] = "closeThrew"


\* C17: the per-address map holds no entry whose count has reached zero: in
\* every reachable state every entry of the per-address map is at least 1.
C17_NoZeroEntries ==
    \A ip \in DOMAIN connectionsByIp : connectionsByIp[ip] >= 1

C17_Witness ==
    /\ last.op \in {"close", "error"}
    /\ state[last.conn].clientIp \notin DOMAIN connectionsByIp
    /\ DOMAIN connectionsByIp # {}


C18_FrameTypes == {last'.frames[i][1] : i \in 1..Len(last'.frames)}

C18_Interrupted ==
    /\ last'.op = "onmessage"
    /\ last'.req[1].hasServerContent
    /\ last'.req[1].interrupted

C18_OriginalStep ==
    C18_Interrupted => last'.frames = << <<"interrupted", "">> >>

\* C18 (as claimed): an upstream message whose serverContent has the
\* interrupted signal always yields exactly one interrupted frame to the
\* browser and no audio or transcript frame, even if the message also carries
\* audio parts or transcription text.
C18_Original == [][C18_OriginalStep]_vars

C18_AmendedStep ==
    C18_Interrupted =>
        /\ C18_FrameTypes \cap {"audio", "transcript"} = {}
        /\ last'.frames =
              IF readyState[last'.conn] = "OPEN"
              THEN << <<"interrupted", "">> >> ELSE <<>>

\* C18 (amended): an upstream message whose serverContent has the interrupted
\* signal yields no audio or transcript frame, whatever else it carries, and
\* exactly one interrupted frame when the Connection's socket is OPEN (no
\* frame at all otherwise).
C18_Amended == [][C18_AmendedStep]_vars

C18_Witness ==
    /\ last.op = "onmessage"
    /\ last.req[1].interrupted
    /\ Len(last.req[1].parts) = MaxParts
    /\ \A i \in 1..MaxParts :
          last.req[1].parts[i].data # "" /\ HasText(last.req[1].parts[i].text)
    /\ HasText(last.req[1].inputTranscription)
    /\ HasText(last.req[1].outputTranscription)
    /\ last.frames = << <<"interrupted", "">> >>


\* the voice the claim expects for a start payload's voice name
C19_Expected(v) ==
    IF ~v.isString \/ v.value \notin VOICE_ALLOWLIST THEN defaultVoice ELSE v.value

C19_StartStep ==
    (last'.op = "start" /\ up'[last'.conn] # up[last'.conn]) =>
        LET c == last'.conn
        IN upVoice'[c] = C19_Expected(last'.req[1])

\* between a connect request and its onopen the requested voice stays put
C19_PendingStep ==
    \A c \in ConnIds :
        (/\ up[c] # <<>>
         /\ up[c][Len(up[c])] = "connecting"
         /\ Len(up'[c]) = Len(up[c])) => upVoice'[c] = upVoice[c]

C19_OpenStep ==
    (last'.op = "onopen" /\ readyState[last'.conn] = "OPEN") =>
        LET c == last'.conn
        IN last'.frames = << <<"connected", upVoice[c]>> >>

\* C19: for a start payload whose voice name is absent, not a string or not in
\* the voice allow-list, the voice requested from the upstream is the default
\* voice and the connected frame of that session reports that same voice; for
\* a listed voice both are that voice.
C19_EffectiveVoice == [][C19_StartStep /\ C19_PendingStep /\ C19_OpenStep]_vars

C19_Witness ==
    /\ last.op = "onopen"
    /\ upVoice[last.conn] = defaultVoice
    /\ state[last.conn].session = 1
    /\ last.frames = << <<"connected", defaultVoice>> >>


C20_Unchanged(c) ==
    /\ state'[c].starting = state[c].starting
    /\ state'[c].connected = state[c].connected
    /\ state'[c].session = state[c].session
    /\ up' = up

C20_OriginalStep ==
    (last'.op = "badjson" /\ readyState[last'.conn] = "OPEN") =>
        /\ last'.frames = << <<"error", "Invalid JSON payload.">> >>
        /\ readyState'[last'.conn] = "OPEN"
        /\ C20_Unchanged(last'.conn)

\* C20 (as claimed): a non-JSON inbound message produces exactly one error
\* frame ('Invalid JSON payload.') to that Connection and leaves the Connection
\* open and its session state (starting, connected, session handle) unchanged.
C20_Original == [][C20_OriginalStep]_vars

C20_AmendedStep ==
    (last'.op = "badjson" /\ readyState[last'.conn] = "OPEN") =>
        LET c == last'.conn
            s == state[c]
            counted == IF now - s.messageWindowStart >= 60000
                       THEN 1 ELSE s.messageCount + 1
        IN /\ C20_Unchanged(c)
           /\ IF counted <= maxMessagesPerMinute
              THEN /\ last'.frames = << <<"error", "Invalid JSON payload.">> >>
                   /\ UNCHANGED wsVars
              ELSE /\ last'.frames = << <<"error", "Rate limit exceeded.">> >>
                   /\ readyState'[c] = "CLOSING"
                   /\ closeFrame'[c].code = 1008

\* C20 (amended): a non-JSON inbound message that is within the per-minute
\* message ceiling produces exactly one error frame ('Invalid JSON payload.')
\* and leaves the Connection open; one beyond the ceiling gets the rate-limit
\* error frame and a 1008 close instead; in both cases starting, connected and
\* the session handle are unchanged.
C20_Amended == [][C20_AmendedStep]_vars

C20_Witness ==
    /\ last.op = "badjson"
    /\ last.parsed
    /\ last.frames = << <<"error", "Invalid JSON payload.">> >>
    /\ readyState[last.conn] = "OPEN"
    /\ state[last.conn].connected


\* an admitted audio or text message with payload reaches a connected session
C21_Sends ==
    /\ last'.op \in {"audio", "text"}
    /\ last'.parsed
    /\ last'.req[2]
    /\ state[last'.conn].session # 0
    /\ state[last'.conn].connected

C21_Throws ==
    /\ C21_Sends
    /\ last'.req[1] # NoError
    /\ readyState[last'.conn] = "OPEN"

C21_ThrowStep ==
    C21_Throws =>
        LET c == last'.conn
        IN /\ last'.frames =
                 << <<"error", IF last'.req[1].kind = "other"
                               THEN "Unknown relay error"
                               ELSE last'.req[1].message>> >>
           /\ last'.fwd = ""
           /\ UNCHANGED wsVars
           /\ state'[c].session = state[c].session /\ state[c].session # 0
           /\ state'[c].connected /\ state[c].connected
           /\ up' = up

\* a send that does not throw forwards the message, whatever failed before
C21_ForwardStep ==
    (C21_Sends /\ last'.req[1] = NoError) =>
        /\ last'.fwd = last'.op
        /\ last'.frames = <<>>

\* C21: when forwarding an audio or text message to the upstream session
\* throws, the relay sends an error frame with the message text and neither
\* closes the Connection nor clears the upstream session handle, so later
\* frames are still forwarded.
C21_ForwardFailure == [][C21_ThrowStep /\ C21_ForwardStep]_vars

C21_Witness ==
    /\ last.op = "audio"
    /\ last.req = << [kind |-> "Error", message |-> "connect failed"], TRUE >>
    /\ last.frames = << <<"error", "connect failed">> >>
    /\ readyState[last.conn] = "OPEN"
    /\ state[last.conn].connected
    /\ state[last.conn].session # 0


\* the start timer of c can no longer close c
C22_TimerHarmless(c) == ~startTimer[c] \/ readyState[c] # "OPEN"

C22_TimeoutStep ==
    (last'.op = "startTimeout") =>
        LET c == last'.conn
        IN IF up[c] = <<>> /\ readyState[c] = "OPEN"
           THEN /\ last'.frames = << <<"error", "Start message timeout.">> >>
                /\ readyState'[c] = "CLOSING"
                /\ closeFrame'[c] = [code |-> 1008, reason |-> "Start timeout"]
           ELSE C22_TimerHarmless(c) =>
                   (last'.frames = <<>> /\ UNCHANGED wsVars)

C22_StartStep ==
    (last'.op = "start") =>
        (~startTimer'[last'.conn] \/ readyState'[last'.conn] # "OPEN")

C22_StableStep ==
    \A c \in ConnIds :
        (readyState[c] # "NONE" /\ C22_TimerHarmless(c)) => C22_TimerHarmless(c)'

\* C22: if no start message has arrived when the start timer fires and the
\* socket is still open, the relay sends the error frame 'Start message
\* timeout.' and closes with 1008; once a start message has been received the
\* start timer never closes the Connection.
C22_StartTimer == [][C22_TimeoutStep /\ C22_StartStep /\ C22_StableStep]_vars

C22_Witness ==
    /\ last.op = "startTimeout"
    /\ last.frames = << <<"error", "Start message timeout.">> >>
    /\ closeFrame[last.conn] = [code |-> 1008, reason |-> "Start timeout"]
    /\ state[last.conn].messageCount > 0


C23_FlagSteps ==
    /\ (last'.op = "upgrade" /\ last'.http = 101) => state'[last'.conn].isAlive
    /\ (last'.op = "pong") => state'[last'.conn].isAlive
    /\ (last'.op \notin {"upgrade", "pong", "heartbeat"}) =>
           \A c \in ConnIds : state'[c].isAlive = state[c].isAlive

C23_Terminated(c) ==
    /\ last'.fwd = "terminate"
    /\ last'.frames = <<>>
    /\ socketDead'[c]
    /\ readyState'[c] # "OPEN"
    /\ state' = state

C23_OriginalStep ==
    (last'.op = "heartbeat") =>
        LET c == last'.conn
        IN IF ~state[c].isAlive
           THEN C23_Terminated(c)
           ELSE /\ last'.fwd = ""
                /\ ~state'[c].isAlive
                /\ last'.frames = << <<"ping", "">> >>
                /\ UNCHANGED wsVars

\* C23 (as claimed): the liveness flag starts true and a pong sets it; on each
\* tick the socket is terminated exactly when no pong was received since the
\* previous tick, otherwise the flag is cleared and a ping is sent.
C23_Original == [][C23_FlagSteps /\ C23_OriginalStep]_vars

C23_AmendedStep ==
    (last'.op = "heartbeat") =>
        LET c == last'.conn
        IN IF ~state[c].isAlive
           THEN C23_Terminated(c)
           ELSE /\ last'.fwd = ""
                /\ ~state'[c].isAlive
                /\ last'.frames = IF readyState[c] = "OPEN"
                                  THEN << <<"ping", "">> >> ELSE <<>>
                /\ UNCHANGED wsVars

\* C23 (amended): the liveness flag starts true and a pong sets it; on each
\* tick the socket is terminated exactly when no pong was received since the
\* previous tick, otherwise the flag is cleared and a ping is sent if the
\* socket is OPEN (none while the relay is closing it).
C23_Amended == [][C23_FlagSteps /\ C23_AmendedStep]_vars

C23_Witness ==
    /\ last.op = "heartbeat"
    /\ last.fwd = "terminate"
    /\ socketDead[last.conn]
    /\ closeFrame[last.conn].code = 0


\* ------------------------------------------------- the token endpoint
\* app/api/token/route.js: POST mints an ephemeral token.  The module state
\* is the rate window and the in-flight counter; each request is a coroutine
\* that is suspended at `await request.json()` and at
\* `await client.authTokens.create(...)`.
RATE_LIMIT_WINDOW_MS == 60000
RATE_LIMIT_PER_IP    == 1
RATE_LIMIT_GLOBAL    == 2
MAX_INFLIGHT         == 1
ALLOWED_ORIGINS      == {"https://app.example"}

TokenRequests == 1..MaxRequests
TokenOrigins  == {NoOrigin, "https://app.example", "https://evil.example"}

relayVarsNoClient ==
    <<procVars, admVars, wsVars, state, tmrVars, up, upVoice, last, ordVars,
      fwdVars>>

relayVars == <<procVars, admVars, wsVars, state, tmrVars, up, upVoice, last,
               ordVars, fwdVars, cliVars>>

\* isOriginAllowed(request); the origins drawn are already in the form
\* `new URL(value).origin` gives, an absent header is NoOrigin
isOriginAllowed(prod, origin) ==
    IF ~prod THEN TRUE
    ELSE IF ALLOWED_ORIGINS = {} THEN FALSE
    ELSE IF origin = NoOrigin THEN FALSE
    ELSE origin \in ALLOWED_ORIGINS

\* getRateLimitState(clientIp) at time t: the verdict and the module state
\* it leaves
getRateLimitState_CountsRejected(ip, t, startedAt, count, byIp) ==
    LET roll    == t - startedAt >= RATE_LIMIT_WINDOW_MS
        start   == IF roll THEN t ELSE startedAt
        gcount  == IF roll THEN 0 ELSE count
        counts  == IF roll THEN <<>> ELSE byIp
        ipCount == MapGet(counts, ip, 0)
    IN  [allowed |-> ipCount < RATE_LIMIT_PER_IP /\ gcount < RATE_LIMIT_GLOBAL,
         startedAt |-> start, count |-> gcount + 1,
         byIp |-> MapSet(counts, ip, ipCount + 1)]

getRateLimitState(ip, t, startedAt, count, byIp) ==
    LET roll    == t - startedAt >= RATE_LIMIT_WINDOW_MS
        start   == IF roll THEN t ELSE startedAt
        gcount  == IF roll THEN 0 ELSE count
        counts  == IF roll THEN <<>> ELSE byIp
        ipCount == MapGet(counts, ip, 0)
    IN  IF ipCount >= RATE_LIMIT_PER_IP
        THEN [allowed |-> FALSE, startedAt |-> start, count |-> gcount,
              byIp |-> counts]
        ELSE IF gcount >= RATE_LIMIT_GLOBAL
        THEN [allowed |-> FALSE, startedAt |-> start, count |-> gcount,
              byIp |-> counts]
        ELSE [allowed |-> TRUE, startedAt |-> start, count |-> gcount + 1,
              byIp |-> MapSet(counts, ip, ipCount + 1)]

\* POST(request) up to its first await: credential, origin, rate limit and
\* the in-flight check, in that order; status 0 is "no response yet"
PostStatus(key, originOk, allowed, inFlight) ==
    IF ~key THEN 500
    ELSE IF ~originOk THEN 403
    ELSE IF ~allowed THEN 429
    ELSE IF inFlight >= MAX_INFLIGHT THEN 503
    ELSE 0

TokenPost(r, ip, origin) ==
    /\ tokenPc[r] = "idle"
    /\ LET originOk == isOriginAllowed(isProduction, origin)
           limited  == hasKey /\ originOk
           rl       == getRateLimitState(ip, now, globalWindowStartedAt,
                                         globalWindowCount, REQUEST_COUNTS_BY_IP)
           status   == PostStatus(hasKey, originOk, rl.allowed,
                                  inFlightTokenRequests)
       IN  /\ globalWindowStartedAt' =
                  IF limited THEN rl.startedAt ELSE globalWindowStartedAt
           /\ globalWindowCount' =
                  IF limited THEN rl.count ELSE globalWindowCount
           /\ REQUEST_COUNTS_BY_IP' =
                  IF limited THEN rl.byIp ELSE REQUEST_COUNTS_BY_IP
           /\ tokenAdmitted' =
                  IF limited /\ rl.allowed
                  THEN Append(tokenAdmitted, <<ip, now>>) ELSE tokenAdmitted
           /\ tokenPc' = [tokenPc EXCEPT ![r] =
                              IF status = 0 THEN "json" ELSE "idle"]
           /\ tokenLast' = [op |-> "post", r |-> r, ip |-> ip,
                            status |-> status]
    /\ UNCHANGED <<inFlightTokenRequests, now, relayVars>>

\* `await request.json()` settles (a rejection is caught: body = {}), then
\* the handler runs to `await client.authTokens.create(...)`
TokenBody(r) ==
    /\ tokenPc[r] = "json"
    /\ inFlightTokenRequests' = inFlightTokenRequests + 1
    /\ tokenPc' = [tokenPc EXCEPT ![r] = "create"]
    /\ tokenLast' = [op |-> "body", r |-> r, ip |-> "", status |-> 0]
    /\ UNCHANGED <<REQUEST_COUNTS_BY_IP, globalWindowStartedAt,
                   globalWindowCount, tokenAdmitted, now, relayVars>>

\* authTokens.create settles: 200 with the token, 500 from the catch block;
\* the finally block gives the slot back
TokenCreate(r, ok) ==
    /\ tokenPc[r] = "create"
    /\ inFlightTokenRequests' = Max(0, inFlightTokenRequests - 1)
    /\ tokenPc' = [tokenPc EXCEPT ![r] = "idle"]
    /\ tokenLast' = [op |-> "create", r |-> r, ip |-> "",
                     status |-> IF ok THEN 200 ELSE 500]
    /\ UNCHANGED <<REQUEST_COUNTS_BY_IP, globalWindowStartedAt,
                   globalWindowCount, tokenAdmitted, now, relayVars>>

\* time passes in the token endpoint's process
TokenTick ==
    /\ now < MaxTicks * TickMs
    /\ now' = now + TickMs
    /\ tokenLast' = [op |-> "tick", r |-> 0, ip |-> "", status |-> 0]
    /\ UNCHANGED <<REQUEST_COUNTS_BY_IP, globalWindowStartedAt,
                   globalWindowCount, inFlightTokenRequests, tokenPc,
                   tokenAdmitted, relayVars>>

NextToken ==
    \/ \E r \in TokenRequests, ip \in IPs, origin \in TokenOrigins :
           TokenPost(r, ip, origin)
    \/ \E r \in TokenRequests : TokenBody(r)
    \/ \E r \in TokenRequests, ok \in BOOLEAN : TokenCreate(r, ok)
    \/ TokenTick

SpecToken == Init /\ [][NextToken]_vars

\* C24: the number of token-generation requests in flight at once, and the
\* counter that tracks them, never exceed MAX_INFLIGHT
C24_InFlightBounded ==
    /\ inFlightTokenRequests <= MAX_INFLIGHT
    /\ Cardinality({r \in TokenRequests : tokenPc[r] = "create"}) <= MAX_INFLIGHT


\* C25: within the endpoint's rate window the requests the limiter let pass
\* number at most RATE_LIMIT_PER_IP per address and RATE_LIMIT_GLOBAL in all
\* (and the two counters are exactly those numbers); a 429 changes neither
\* counter; a request that reaches the limiter once the window has elapsed
\* resets both counters in the same step, and nothing else restarts a window.
C25_AdmittedInWindow(ips) ==
    Cardinality({i \in DOMAIN tokenAdmitted :
                    /\ tokenAdmitted[i][1] \in ips
                    /\ tokenAdmitted[i][2] >= globalWindowStartedAt})

C25_Bounded ==
    /\ \A ip \in IPs :
          /\ C25_AdmittedInWindow({ip}) <= RATE_LIMIT_PER_IP
          /\ C25_AdmittedInWindow({ip}) = MapGet(REQUEST_COUNTS_BY_IP, ip, 0)
    /\ C25_AdmittedInWindow(IPs) <= RATE_LIMIT_GLOBAL
    /\ C25_AdmittedInWindow(IPs) = globalWindowCount

C25_RejectStep ==
    (tokenLast'.op = "post" /\ tokenLast'.status = 429)
        => UNCHANGED <<REQUEST_COUNTS_BY_IP, globalWindowCount>>

C25_ResetStep ==
    LET reached == tokenLast'.op = "post" /\ tokenLast'.status \in {429, 503, 0}
        elapsed == now - globalWindowStartedAt >= RATE_LIMIT_WINDOW_MS
        reset   == /\ globalWindowStartedAt' = now
                   /\ globalWindowCount' = 1
                   /\ REQUEST_COUNTS_BY_IP' = [ip \in {tokenLast'.ip} |-> 1]
    IN  /\ (reached /\ elapsed) => reset
        /\ (globalWindowStartedAt' # globalWindowStartedAt)
               => (reached /\ elapsed /\ reset)

C25_RateWindow == []C25_Bounded /\ [][C25_RejectStep /\ C25_ResetStep]_vars

\* a second window in which the global limit is used up and the next
\* request is turned away
C25_Witness ==
    /\ globalWindowStartedAt > 0
    /\ globalWindowCount = RATE_LIMIT_GLOBAL
    /\ tokenLast.op = "post" /\ tokenLast.status = 429
    /\ ~(tokenLast.ip \in DOMAIN REQUEST_COUNTS_BY_IP)


\* The shutdown coordinator with the scheduling the event loop gives: a timer
\* that is armed fires unless the process exits first.  Nothing is assumed of
\* the clients or of the listener's close callback.
SpecShutdown == Init /\ [][NextRouter]_vars /\ WF_vars(Failsafe)

C26_ExitStep ==
    (proc = "running" /\ proc' = "exited") =>
        /\ isShuttingDown
        /\ \/ /\ last'.op = "listenerClosed" /\ last'.fwd = "clean"
              /\ exitCode' = 0
              /\ \A c \in ConnIds : readyState[c] \in {"NONE", "CLOSED"}
           \/ /\ last'.op = "listenerClosed" /\ last'.fwd = "error"
              /\ exitCode' = 1
           \/ /\ last'.op = "failsafe"
              /\ exitCode' = 1

\* C26: once the termination signal has been handled the process eventually
\* exits, whatever the Connections do; the exit is by the listener's close
\* callback with code 0 (no error, every socket ended) or 1 (error), or by
\* the failsafe timer with code 1.
C26_Terminates ==
    /\ isShuttingDown ~> (proc = "exited")
    /\ [][C26_ExitStep]_vars

\* the failsafe ends a process whose Connections never finished closing
C26_Witness ==
    /\ proc = "exited" /\ exitCode = 1 /\ last.op = "failsafe"
    /\ Cardinality({c \in ConnIds : readyState[c] = "CLOSING"}) >= 2


C27_TimersDead ==
    \A c \in ConnIds :
        state[c].closed => (~heartbeatTimer[c] /\ ~startTimer[c])

C27_NoTimerStep ==
    \A c \in ConnIds :
        state[c].closed =>
            ~(last'.op \in {"heartbeat", "startTimeout"} /\ last'.conn = c)

\* C27: once closeConnection has run for a Connection both of its timers are
\* cleared and stay so: no later step is a heartbeat tick (ping or terminate)
\* or a start timeout (error frame, close 1008) of that Connection.
C27_NoTimerAfterTeardown == []C27_TimersDead /\ [][C27_NoTimerStep]_vars

\* a Connection torn down while its start timer was still pending (no start
\* was received and no timeout close was sent) and after a heartbeat tick
C27_Witness ==
    \E c \in ConnIds :
        /\ state[c].closed /\ last.op = "close" /\ last.conn = c
        /\ state[c].session = 0 /\ closeFrame[c].code = 0
        /\ ~state[c].isAlive


\* ------------------------------------------------ one client's frame order
\* The browser numbers nothing; the model does, to tell the frames apart.
\* The transport delivers a Connection's frames first in, first out, and the
\* message handler runs once per delivered frame.
OrderFrames ==
    {m \in Messages :
        \/ m.type = "start" /\ m.voiceName = NoVoice
        \/ m.type \in {"audio", "text"} /\ m.hasData /\ m.error.kind # "other"}

\* socket.send(JSON.stringify(payload)) in the browser
BrowserSend(c, m) ==
    /\ proc = "running"
    /\ readyState[c] \in {"OPEN", "CLOSING"}
    /\ ~socketDead[c]
    /\ sentCount[c] < MaxFrames
    /\ Len(wire[c]) < MaxWire
    /\ sentCount' = [sentCount EXCEPT ![c] = @ + 1]
    /\ wire' = [wire EXCEPT ![c] = Append(@, [id |-> sentCount[c] + 1, m |-> m])]
    /\ last' = Out("browserSend", c, 0, <<>>, FALSE, "")
    /\ UNCHANGED <<procVars, admVars, now, wsVars, state, tmrVars, up, upVoice,
                   forwarded, tokVars, fwdVars, cliVars>>

Forward_Twice(log, id) == log \o <<id, id>>

\* state.session.sendRealtimeInput(...) / sendClientContent(...): the
\* upstream session gets the calls in the order they are made
Forward(log, id) == Append(log, id)

\* the 'message' event of the frame at the head of the transport
Deliver(c) ==
    /\ wire[c] # <<>>
    /\ MessageHandler(c, Head(wire[c]).m)
    /\ wire' = [wire EXCEPT ![c] = Tail(@)]
    /\ forwarded' = IF last'.fwd # ""
                    THEN [forwarded EXCEPT ![c] = Forward(@, Head(wire[c]).id)]
                    ELSE forwarded
    /\ UNCHANGED sentCount

NextOrder ==
    \/ validateConfig
    \/ \E origin \in Origins, path \in Paths : OneClientUpgrade(origin, path)
    \/ \E c \in ConnIds, m \in OrderFrames : BrowserSend(c, m)
    \/ \E c \in ConnIds : Deliver(c)
    \/ \E c \in ConnIds : ConnectResolve(c)
    \/ \E c \in ConnIds, threw \in BOOLEAN : WsCloseEvent(c, threw)
    \/ Tick

SpecOrder == Init /\ [][NextOrder]_vars

C28_InOrder ==
    \A c \in ConnIds :
        /\ \A i, j \in DOMAIN forwarded[c] :
               i < j => forwarded[c][i] < forwarded[c][j]
        /\ \A i \in DOMAIN forwarded[c] : forwarded[c][i] \in 1..sentCount[c]

C28_Accepted(c) ==
    /\ wire[c] # <<>>
    /\ Head(wire[c]).m.type \in {"audio", "text"}
    /\ Head(wire[c]).m.error = NoError
    /\ state[c].session # 0 /\ state[c].connected
    /\ withinMessageLimit(state[c], now)

C28_DeliverStep ==
    \A c \in ConnIds :
        (last'.conn = c /\ last'.op \in {"audio", "text"} /\ C28_Accepted(c))
            => forwarded'[c] = Append(forwarded[c], Head(wire[c]).id)

\* C28: the frames the upstream session receives from one Connection are in
\* the order the browser sent them, each at most once, and every audio or
\* text frame accepted while connected is forwarded in the step that
\* delivers it, also when it was sent while a start was still connecting.
C28_ForwardOrder == []C28_InOrder /\ [][C28_DeliverStep]_vars

\* two frames forwarded in the order sent, with a frame between them that
\* was not forwarded (a repeated start, or a frame whose send threw)
C28_Witness ==
    \E c \in ConnIds :
        /\ Len(forwarded[c]) >= 2
        /\ forwarded[c][1] + 1 < forwarded[c][2]


C29_OverCap(ip) ==
    \/ Cardinality(activeConnections) >= maxConnections
    \/ MapGet(connectionsByIp, ip, 0) >= maxConnectionsPerIp

C29_Disallowed(origin) == isProduction /\ ~(origin \in allowedOrigins)

C29_OrderStep ==
    (last'.op = "upgrade" /\ last'.req[3] = RelayPath /\ ~isShuttingDown) =>
        /\ C29_OverCap(last'.req[1]) => last'.http = 429
        /\ (~C29_OverCap(last'.req[1]) /\ C29_Disallowed(last'.req[2]))
               => last'.http = 403

C29_RejectStep ==
    (last'.op = "upgrade" /\ last'.http \in {429, 403, 503}) =>
        /\ last'.conn = 0
        /\ UNCHANGED <<activeConnections, connectionsByIp, readyState, state,
                       up, tmrVars>>

\* C29: a relay-path upgrade handled while not shutting down is answered 429
\* when a connection cap is reached, whatever its Origin, and 403 when it is
\* within the caps and its origin is not allowed; an upgrade answered 429,
\* 403 or 503 changes neither the Connection set nor the per-address counts
\* and creates no Connection, session or timer.
C29_AdmissionFirst == [][C29_OrderStep /\ C29_RejectStep]_vars

\* an upgrade with a disallowed origin that is over a cap: 429, not 403
C29_Witness ==
    /\ last.op = "upgrade" /\ last.req[3] = RelayPath
    /\ last.http = 429 /\ ~isShuttingDown
    /\ C29_Disallowed(last.req[2])
    /\ activeConnections # {}


C30_MessageOps == {"badjson", "start", "audio", "text", "stop"}

C30_Step ==
    \A c \in ConnIds :
        (last'.conn = c /\ last'.op \in C30_MessageOps) =>
            LET elapsed == now - state[c].messageWindowStart >= 60000
            IN  /\ state'[c].messageWindowStart =
                       IF elapsed THEN now ELSE state[c].messageWindowStart
                /\ state'[c].messageCount =
                       IF elapsed THEN 1 ELSE state[c].messageCount + 1
                /\ last'.parsed <=> (state'[c].messageCount <= maxMessagesPerMinute)
                /\ (~last'.parsed /\ readyState[c] = "OPEN") =>
                       /\ last'.frames = << <<"error", "Rate limit exceeded.">> >>
                       /\ closeFrame'[c] = [code |-> 1008,
                                            reason |-> "Rate limit exceeded"]

\* C30: every inbound message of a Connection, whatever its type, is counted
\* in a fixed 60 s window: less than 60 s after the window start the count
\* grows by one, otherwise the window restarts at the arrival time with
\* count one; the message is admitted exactly when the count after it is at
\* most maxMessagesPerMinute, so the first maxMessagesPerMinute messages of a
\* window pass and the next is rejected.
C30_FixedWindow == [][C30_Step]_vars

\* an audio or text message admitted as the first of a later window (the
\* start that opened the session was counted in an earlier one)
C30_Witness ==
    \E c \in ConnIds :
        /\ last.conn = c /\ last.op \in {"audio", "text"} /\ last.parsed
        /\ state[c].messageCount = 1
        /\ state[c].messageWindowStart = now
        /\ up[c] # <<>>


\* ------------------------------------------- forwardGeminiMessage, alone
\* The function applied once to an upstream message and a socket in any
\* state it is called in: the upstream callbacks keep running while the
\* browser socket is closing or closed, until the session's own close.
ForwardTexts == Texts \cup {[isString |-> TRUE, chars |-> <<>>]}
ForwardParts == [data : PartData \cup {"BBBB"}, text : ForwardTexts]
ForwardMessages ==
    {NoMessage}
    \cup [hasServerContent : {TRUE}, interrupted : BOOLEAN,
          parts : UNION {[1..n -> ForwardParts] : n \in 0..MaxForwardParts},
          inputTranscription : ForwardTexts,
          outputTranscription : ForwardTexts]

InitForward ==
    /\ InitRelay
    /\ fwdMessage \in ForwardMessages
    /\ fwdReadyState \in {"OPEN", "CLOSING", "CLOSED"}
    /\ fwdFrames = <<>>
    /\ fwdDone = FALSE

ApplyForward ==
    /\ ~fwdDone
    /\ fwdFrames' = forwardGeminiMessage(fwdReadyState, fwdMessage)
    /\ fwdDone' = TRUE
    /\ UNCHANGED <<fwdMessage, fwdReadyState, procVars, admVars, now, wsVars,
                   state, tmrVars, up, upVoice, last, tokVars, ordVars,
                   cliVars>>

NextForward == ApplyForward

SpecForward == InitForward /\ [][NextForward]_vars

\* the frames the claim expects, built from the last part backwards
C31_NonBlank(text) ==
    text.isString /\ \E i \in DOMAIN text.chars : text.chars[i] # " "

C31_Transcript(speaker, text) ==
    IF C31_NonBlank(text) THEN << <<"transcript", speaker, text.chars>> >> ELSE <<>>

RECURSIVE C31_PartsExpected(_)
C31_PartsExpected(parts) ==
    IF Len(parts) = 0 THEN <<>>
    ELSE LET part == parts[Len(parts)]
         IN  C31_PartsExpected(SubSeq(parts, 1, Len(parts) - 1))
             \o (IF part.data = "" THEN <<>> ELSE << <<"audio", part.data>> >>)
             \o C31_Transcript("ai", part.text)

C31_Expected(message) ==
    C31_PartsExpected(message.parts)
    \o C31_Transcript("user", message.inputTranscription)
    \o C31_Transcript("ai", message.outputTranscription)

C31_Forwarded == fwdDone /\ fwdMessage.hasServerContent /\ ~fwdMessage.interrupted

\* C31 (as claimed): for an upstream message without the interrupted signal
\* the relay emits one audio frame per inline-audio part in part order, an
\* 'ai' transcript per non-blank part text, then a 'user' transcript for a
\* non-blank input transcription and an 'ai' transcript for a non-blank
\* output transcription, and no transcript for blank text.
C31_Original == C31_Forwarded => fwdFrames = C31_Expected(fwdMessage)

\* C31 (amended): the same frames, in the same order, when the Connection's
\* socket is OPEN; no frame at all when the socket is closing or closed.
C31_Amended ==
    C31_Forwarded =>
        fwdFrames = IF fwdReadyState = "OPEN"
                    THEN C31_Expected(fwdMessage) ELSE <<>>

\* two parts with different audio, one with a blank text, and both
\* transcriptions: audio, audio, ai transcript, user and ai transcripts
C31_Witness ==
    /\ C31_Forwarded /\ fwdReadyState = "OPEN"
    /\ Len(fwdMessage.parts) = 2
    /\ fwdMessage.parts[1].data = "BBBB" /\ fwdMessage.parts[2].data = "AAAA"
    /\ fwdMessage.parts[1].text.isString /\ ~C31_NonBlank(fwdMessage.parts[1].text)
    /\ Len(fwdFrames) = 5
    /\ fwdFrames[1] = <<"audio", "BBBB">> /\ fwdFrames[2] = <<"audio", "AAAA">>
    /\ fwdFrames[4][2] = "user"


C32_Step ==
    (last'.op = "upgrade" /\ last'.req[3] # RelayPath /\ ~isShuttingDown) =>
        /\ last'.http = 0
        /\ last'.conn = 0
        /\ UNCHANGED <<activeConnections, connectionsByIp, readyState, state,
                       up, tmrVars>>

\* C32: while not shutting down, an upgrade request for any path but the
\* relay endpoint gets no status line from the relay (it is handed to the
\* application's upgrade handler) whatever the caps and its Origin, and the
\* Connection set, the per-address counts and every Connection are unchanged.
C32_Delegated == [][C32_Step]_vars

\* delegated although a cap is reached and the origin is not allowed
C32_Witness ==
    /\ last.op = "upgrade" /\ last.req[3] # RelayPath /\ last.http = 0
    /\ ~isShuttingDown /\ isProduction
    /\ ~(last.req[2] \in allowedOrigins)
    /\ MapGet(connectionsByIp, last.req[1], 0) >= maxConnectionsPerIp


C33_OpenFrom(ip) == {c \in activeConnections : state[c].clientIp = ip}

\* C33: for every source address the tracked count equals the number of
\* tracked open Connections from it, also after the error and the close
\* event of a Connection have both fired, so that no address has more open
\* Connections than maxConnectionsPerIp.
C33_CountsMatch ==
    \A ip \in IPs :
        /\ MapGet(connectionsByIp, ip, 0) = Cardinality(C33_OpenFrom(ip))
        /\ Cardinality(C33_OpenFrom(ip)) <= maxConnectionsPerIp


C34_Step ==
    \A c \in ConnIds :
        (last'.conn = c /\ (last'.fwd # "" \/ Len(up'[c]) > Len(up[c])))
            => readyState[c] = "OPEN"

\* C34: an upstream connect is initiated, and a frame is forwarded upstream,
\* only in a step whose Connection has an OPEN socket: no message handled
\* after the relay began closing the Connection does either.
C34_OnlyWhileOpen == [][C34_Step]_vars


C35_Teardown(c) == last'.conn = c /\ last'.op \in {"close", "error"}

C35_Step ==
    \A c \in ConnIds :
        C35_Teardown(c) =>
            /\ \A d \in ConnIds \ {c} :
                  /\ state'[d] = state[d]
                  /\ up'[d] = up[d]
                  /\ heartbeatTimer'[d] = heartbeatTimer[d]
                  /\ startTimer'[d] = startTimer[d]
                  /\ readyState'[d] = readyState[d]
            /\ \A ip \in IPs \ {state[c].clientIp} :
                  MapGet(connectionsByIp', ip, 0) = MapGet(connectionsByIp, ip, 0)
            /\ activeConnections' = activeConnections \ {c}

C35_TrueTotal ==
    activeConnections =
        {c \in ConnIds : readyState[c] # "NONE" /\ ~state[c].closed}

\* C35: the close and error events of one Connection, in any order, leave
\* every other Connection's state, upstream attempts, timers and socket
\* alone, change the count of no address but its own, and remove exactly
\* that Connection from the tracked set, which always holds the Connections
\* that are open: an upgrade from another address is judged on true numbers.
C35_Isolation == []C35_TrueTotal /\ [][C35_Step]_vars

\* the close event of a Connection whose error event has fired, while a
\* Connection from another address is open
C35_Witness ==
    /\ last.op = "close" /\ wsErrored[last.conn]
    /\ \E d \in activeConnections :
          /\ state[d].clientIp # state[last.conn].clientIp
          /\ MapGet(connectionsByIp, state[d].clientIp, 0) = 1


C36_FlagStep == isShuttingDown => isShuttingDown'

C36_SignalStep ==
    (last'.op = "signal" /\ isShuttingDown) =>
        /\ last'.fwd = "ignored"
        /\ UNCHANGED <<isShuttingDown, listenerClosing, failsafeArmed, wsVars,
                       admVars, state, tmrVars, proc, exitCode>>

C36_FirstStep ==
    (last'.op = "signal" /\ ~isShuttingDown) =>
        (last'.fwd = "started" /\ isShuttingDown' /\ listenerClosing'
         /\ failsafeArmed')

\* C36: the shutting-down flag never goes back to false; the first
\* termination signal runs the shutdown (listener close and failsafe timer
\* armed), every later one returns at the guard: it sends no close frame,
\* calls no listener close and arms no timer.
C36_ShutdownOnce == [][C36_FlagStep /\ C36_SignalStep /\ C36_FirstStep]_vars

\* a second signal while the first shutdown is still waiting for a
\* Connection that is closing
C36_Witness ==
    /\ last.op = "signal" /\ last.fwd = "ignored"
    /\ proc = "running" /\ listenerClosing /\ failsafeArmed
    /\ \E c \in ConnIds : readyState[c] = "CLOSING" /\ closeFrame[c].code = 1012


C37_Flags ==
    \A c \in ConnIds :
        /\ state[c].connected => state[c].session # 0
        /\ ~(state[c].starting /\ state[c].connected)

C37_StartingStep ==
    \A c \in ConnIds :
        (state[c].starting /\ last'.conn = c /\ last'.op \in {"audio", "text"})
            => (last'.fwd = "" /\ up'[c] = up[c])

\* C37: in every state between two handlers, connected implies a session
\* handle is held, starting and connected are not both true, and a message
\* handled while a start is connecting is not forwarded upstream.
C37_SessionFlags == []C37_Flags /\ [][C37_StartingStep]_vars

\* an audio message admitted while the second start of a Connection is
\* still connecting: answered, not forwarded
C37_Witness ==
    \E c \in ConnIds :
        /\ state[c].starting /\ Len(up[c]) = 2 /\ up[c][1] = "closed"
        /\ last.conn = c /\ last.op = "audio" /\ last.parsed /\ last.fwd = ""


\* ------------------------------------------------- the browser relay client
\* One GeminiLive object.  Each connect() call that reaches `new WebSocket`
\* has a number s: sock[s] is its socket and the closure of its promise.
\* The relay answers a start with one connected frame; the browser raises
\* open, message, error and close events and fires the timeout.
Sockets == 1..MaxSockets

\* finalize(value) of call s
finalize(sk, s, value) ==
    IF sk[s].settled THEN sk
    ELSE [sk EXCEPT ![s].settled = TRUE, ![s].timeoutId = FALSE,
                    ![s].resolves = @ + 1, ![s].value = value]

\* notifyDisconnected(event)
notifyDisconnected(cl) ==
    IF cl.disconnectNotified THEN cl
    ELSE [cl EXCEPT !.disconnectNotified = TRUE, !.onDisconnected = @ + 1]

\* sendJson(payload) succeeds
CanSend(cl, sk) == cl.socket # 0 /\ sk[cl.socket].readyState = "OPEN"

\* WebSocket.close()
SocketCloseCall(rs) == IF rs \in {"CONNECTING", "OPEN"} THEN "CLOSING" ELSE rs

\* disconnect(): the client and the sockets it leaves
disconnectClient(cl) ==
    IF cl.isDisconnecting THEN cl
    ELSE notifyDisconnected([cl EXCEPT !.isDisconnecting = TRUE, !.socket = 0,
                                       !.isConnected = FALSE])

disconnectSockets(cl, sk) ==
    IF cl.isDisconnecting \/ cl.socket = 0 THEN sk
    ELSE [sk EXCEPT ![cl.socket].readyState = SocketCloseCall(@)]

\* connect(); `fails` is `new WebSocket(url)` throwing
ClientConnect(fails) ==
    /\ IF client.isConnected /\ CanSend(client, sock)
       THEN /\ clientLast' = [op |-> "connect:already", s |-> client.socket]
            /\ UNCHANGED <<client, sock>>
       ELSE \E s \in Sockets :
               /\ sock[s].readyState = "NONE"
               /\ \A t \in Sockets : t < s => sock[t].readyState # "NONE"
               /\ LET cl == [client EXCEPT !.isDisconnecting = FALSE,
                                           !.disconnectNotified = FALSE,
                                           !.onDisconnected = 0]
                  IN  IF fails
                      THEN /\ client' = cl
                           /\ sock' = finalize([sock EXCEPT ![s].readyState = "FAILED"],
                                               s, "false")
                      ELSE /\ client' = [cl EXCEPT !.socket = s]
                           /\ sock' = [sock EXCEPT ![s].readyState = "CONNECTING",
                                                   ![s].timeoutId = TRUE]
               /\ clientLast' = [op |-> "connect", s |-> s]
    /\ UNCHANGED <<relayVarsNoClient, now, tokVars>>

\* socket.onopen of call s: the start goes out on this.socket
SocketOpen(s) ==
    /\ sock[s].readyState = "CONNECTING"
    /\ LET opened == [sock EXCEPT ![s].readyState = "OPEN"]
       IN  sock' = IF CanSend(client, opened)
                   THEN [opened EXCEPT ![client.socket].startSent = TRUE]
                   ELSE finalize(opened, s, "false")
    /\ clientLast' = [op |-> "open", s |-> s]
    /\ UNCHANGED client
    /\ UNCHANGED <<relayVarsNoClient, now, tokVars>>

\* socket.onmessage of call s with the relay's connected frame
SocketConnected(s) ==
    /\ sock[s].readyState \in {"OPEN", "CLOSING"}
    /\ sock[s].startSent /\ ~sock[s].gotConnected
    /\ client' = [client EXCEPT !.isConnected = TRUE,
                                !.disconnectNotified = FALSE]
    /\ sock' = finalize([sock EXCEPT ![s].gotConnected = TRUE], s, "true")
    /\ clientLast' = [op |-> "connected", s |-> s]
    /\ UNCHANGED <<relayVarsNoClient, now, tokVars>>

\* socket.onerror of call s; the close event follows
SocketError(s) ==
    /\ sock[s].readyState \in {"CONNECTING", "OPEN", "CLOSING"}
    /\ ~sock[s].errored
    /\ sock' = LET sk == [sock EXCEPT ![s].errored = TRUE]
               IN IF ~client.isConnected THEN finalize(sk, s, "false") ELSE sk
    /\ clientLast' = [op |-> "error", s |-> s]
    /\ UNCHANGED client
    /\ UNCHANGED <<relayVarsNoClient, now, tokVars>>

\* socket.onclose of call s
SocketClose(s) ==
    /\ sock[s].readyState \in {"CONNECTING", "OPEN", "CLOSING"}
    /\ client' = notifyDisconnected([client EXCEPT !.isConnected = FALSE,
                                                   !.socket = 0])
    /\ sock' = finalize([sock EXCEPT ![s].readyState = "CLOSED"], s, "false")
    /\ clientLast' = [op |-> "close", s |-> s]
    /\ UNCHANGED <<relayVarsNoClient, now, tokVars>>

\* the connection timeout of call s fires
ClientTimeout(s) ==
    /\ sock[s].timeoutId
    /\ IF ~client.isConnected
       THEN /\ client' = disconnectClient(client)
            /\ sock' = finalize([disconnectSockets(client, sock)
                                     EXCEPT ![s].timeoutId = FALSE], s, "false")
       ELSE /\ sock' = [sock EXCEPT ![s].timeoutId = FALSE]
            /\ UNCHANGED client
    /\ clientLast' = [op |-> "timeout", s |-> s]
    /\ UNCHANGED <<relayVarsNoClient, now, tokVars>>

\* disconnect() called by the application
ClientDisconnect ==
    /\ client' = disconnectClient(client)
    /\ sock' = disconnectSockets(client, sock)
    /\ clientLast' = [op |-> "disconnect", s |-> client.socket]
    /\ UNCHANGED <<relayVarsNoClient, now, tokVars>>

NextClient ==
    \/ \E fails \in BOOLEAN : ClientConnect(fails)
    \/ \E s \in Sockets : SocketOpen(s)
    \/ \E s \in Sockets : SocketConnected(s)
    \/ \E s \in Sockets : SocketError(s)
    \/ \E s \in Sockets : SocketClose(s)
    \/ \E s \in Sockets : ClientTimeout(s)
    \/ ClientDisconnect

SpecClient == Init /\ [][NextClient]_vars


C38_AtMostOnce ==
    \A s \in Sockets :
        /\ sock[s].resolves <= 1
        /\ sock[s].readyState \in {"FAILED", "CLOSED"} => sock[s].resolves = 1
        /\ sock[s].value = "true" => sock[s].gotConnected
        /\ sock[s].readyState = "FAILED" => sock[s].value = "false"

C38_Pending(s) == ~sock[s].settled /\ ~sock[s].gotConnected

C38_FalseStep ==
    \A s \in Sockets :
        (clientLast'.s = s /\ clientLast'.op \in {"timeout", "error", "close"}
         /\ C38_Pending(s))
            => (sock'[s].value = "false" /\ sock'[s].resolves = 1)

\* C38: the promise of a connect() call is resolved at most once, and once
\* when its socket could not be built or has closed; it is resolved true
\* only after a connected frame arrived on that call's socket; and the
\* timeout, a socket error or a socket close that comes before that frame
\* resolves it false.
C38_ConnectSettles == []C38_AtMostOnce /\ [][C38_FalseStep]_vars

\* C39: the close event of a socket that is no longer the client's socket
\* (disconnect() was called and a new connect() made another one) leaves
\* the new socket reference and isConnected as they were, and onDisconnected
\* is called at most once per connect/disconnect cycle.
C39_StaleCloseStep ==
    \A s \in Sockets :
        (clientLast'.op = "close" /\ clientLast'.s = s
         /\ sock[s].readyState = "CLOSING"
         /\ client.socket # 0 /\ client.socket # s)
            => (client'.socket = client.socket
                /\ client'.isConnected = client.isConnected
                /\ client'.onDisconnected = client.onDisconnected)

C39_NotifiedOnce == client.onDisconnected <= 1

C39_StaleClose == []C39_NotifiedOnce /\ [][C39_StaleCloseStep]_vars

====
